---- MODULE Spec2Model ----
(***************************************************************************)
(* A model of rcomm, a small multi-threaded static-file HTTP server:       *)
(*   - the worker pool of src/src/lib.rs (ThreadPool, Worker);             *)
(*   - the server of src/src/main.rs (main, handle_connection,             *)
(*     clean_route, build_routes);                                         *)
(*   - the response type of src/src/models/http_response.rs.               *)
(* Strings are sequences of one-character strings, byte vectors are        *)
(* sequences of small naturals.                                            *)
(***************************************************************************)
EXTENDS Integers, Sequences, FiniteSets, TLC

\* ------------------------------------------------------------------ bounds

\* Largest pool size tried by ThreadPool::new in the pool specification.
MaxSize == 2
\* Number of jobs the pool's client may submit in the pool specification.
MaxJobs == 3

\* ------------------------------------------------------------- pool state

VARIABLES
    size,        \* the argument of ThreadPool::new
    poolPc,      \* the pool owner's position: init, live, dropping, dropped,
                 \* newPanicked, dropPanicked, aborted
    workers,     \* ThreadPool.workers: the Vec<Worker>, as worker ids
    wpc,         \* each worker thread's position: lock, recv, run, exited, panicked
    wjob,        \* the job each worker thread holds
    lockHolder,  \* who holds the Mutex around the Receiver (NoWorker: nobody)
    poisoned,    \* whether that Mutex is poisoned
    queue,       \* the mpsc channel's buffered jobs
    senderOpen,  \* ThreadPool.sender is Some(_)
    nsub,        \* number of jobs execute has sent
    dequeued,    \* ids of the jobs recv has returned, in order
    completed    \* ids of the jobs that have returned

poolVars == <<size, poolPc, workers, wpc, wjob, lockHolder, poisoned, queue,
              senderOpen, nsub, dequeued, completed>>

\* ----------------------------------------------------------- server state

VARIABLES
    mainPc,      \* main's position: none, start, bound, pooled, accept, panicked
    fs,          \* the filesystem below ./pages
    routes,      \* main's local `routes`
    backlog,     \* connections the listener has not yet handed to incoming()
    connReq,     \* what the client of each connection sends
    connState,   \* each connection: none, pending, queued, closed
    response,    \* what the server has written to each connection
    nfs,         \* number of changes made to the filesystem since startup
    call,        \* the last direct call of handle_connection: its request,
                 \* the filesystem it ran on, how it ended, what it wrote
    respObj,     \* an HttpResponse in the hands of a caller of its methods
    ncalls       \* number of add_header / add_body calls made on it

srvVars == <<mainPc, fs, routes, backlog, connReq, connState, response, nfs, call,
             respObj, ncalls>>

vars == <<poolVars, srvVars>>

NoWorker == -1

NoJob == [id |-> 0, kind |-> "none", conn |-> 0, routes |-> <<>>]

\* The behaviours a Job (a boxed FnOnce) can have: it returns, it panics, or
\* it never returns.
JobKinds == {"ok", "panic", "hang"}

\* A job of kind "conn" is the closure main submits: handle_connection on the
\* connection's stream with its clone of the route table.
Job(id, kind, conn, rts) == [id |-> id, kind |-> kind, conn |-> conn, routes |-> rts]

Range(s) == {s[i] : i \in DOMAIN s}

\* A worker thread that has ended has dropped its clone of the Arc around the
\* Receiver; the Receiver lives as long as one thread still owns a clone.
ReceiverAlive == \E w \in DOMAIN wpc : wpc[w] \notin {"exited", "panicked"}

\* ------------------------------------------------------------------ strings

\* "abc" is written <<"a", "b", "c">>; each element stands for one byte.
SLASH == <<"/">>
SP == <<" ">>
DOT == <<".">>
DOTDOT == <<".", ".">>

UpperChars == <<"A", "B", "C", "D", "E", "F", "G", "H", "I", "J", "K", "L", "M",
                "N", "O", "P", "Q", "R", "S", "T", "U", "V", "W", "X", "Y", "Z">>
LowerChars == <<"a", "b", "c", "d", "e", "f", "g", "h", "i", "j", "k", "l", "m",
                "n", "o", "p", "q", "r", "s", "t", "u", "v", "w", "x", "y", "z">>

LowerChar(ch) ==
    IF \E i \in DOMAIN UpperChars : UpperChars[i] = ch
    THEN LowerChars[CHOOSE i \in DOMAIN UpperChars : UpperChars[i] = ch]
    ELSE ch

\* str::to_lowercase
to_lowercase(s) == [i \in DOMAIN s |-> LowerChar(s[i])]

Digits == <<"0", "1", "2", "3", "4", "5", "6", "7", "8", "9">>

\* format!("{n}") / usize::to_string: the decimal digits of n.
RECURSIVE to_string(_)
to_string(n) ==
    IF n < 10 THEN <<Digits[n + 1]>>
    ELSE to_string(n \div 10) \o <<Digits[(n % 10) + 1]>>

\* The number a string of decimal digits denotes.
RECURSIVE DecimalValue(_)
DecimalValue(str) ==
    IF str = <<>> THEN 0
    ELSE 10 * DecimalValue(SubSeq(str, 1, Len(str) - 1))
         + (CHOOSE d \in 0..9 : Digits[d + 1] = str[Len(str)])

\* str::split(sep) for a one-byte separator: the pieces between the
\* separators, empty pieces included.
RECURSIVE SplitFrom(_, _, _)
SplitFrom(s, sep, cur) ==
    IF s = <<>> THEN <<cur>>
    ELSE IF Head(s) = sep THEN <<cur>> \o SplitFrom(Tail(s), sep, <<>>)
    ELSE SplitFrom(Tail(s), sep, Append(cur, Head(s)))

split(s, sep) == SplitFrom(s, sep, <<>>)

\* The bytes char::is_whitespace accepts.
Whitespace == {" ", "\t", "\r", "\n"}

\* str::split_whitespace: the maximal runs of non-whitespace bytes.
RECURSIVE WordsFrom(_, _)
WordsFrom(s, cur) ==
    IF s = <<>> THEN (IF cur = <<>> THEN <<>> ELSE <<cur>>)
    ELSE IF Head(s) \in Whitespace
         THEN (IF cur = <<>> THEN <<>> ELSE <<cur>>) \o WordsFrom(Tail(s), <<>>)
         ELSE WordsFrom(Tail(s), Append(cur, Head(s)))

split_whitespace(s) == WordsFrom(s, <<>>)

\* ------------------------------------------------------------- clean_route

\* if part == "" || part == "." || part == ".." { continue; }
SkippedEmptyOnly(part) == part = <<>>
Skipped(part) == part = <<>> \/ part = DOT \/ part = DOTDOT

\* The loop of clean_route over the parts: empty, "." and ".." parts are
\* skipped, every other part is pushed as "/part".
RECURSIVE PushParts(_)
PushParts(parts) ==
    IF parts = <<>> THEN <<>>
    ELSE IF Skipped(Head(parts))
         THEN PushParts(Tail(parts))
         ELSE SLASH \o Head(parts) \o PushParts(Tail(parts))

clean_route_raw(route) == route
clean_route(route) ==
    IF PushParts(split(route, "/")) = <<>> THEN SLASH
    ELSE PushParts(split(route, "/"))

\* ------------------------------------------------------------ HttpResponse

HTTP11 == <<"H", "T", "T", "P", "/", "1", ".", "1">>
S_ContentLength == <<"C", "o", "n", "t", "e", "n", "t", "-", "L", "e", "n", "g", "t", "h">>
S_content_length == <<"c", "o", "n", "t", "e", "n", "t", "-", "l", "e", "n", "g", "t", "h">>
S_OK == <<"O", "K">>
S_NotFound == <<"N", "o", "t", " ", "F", "o", "u", "n", "d">>
S_InternalServerError ==
    <<"I", "n", "t", "e", "r", "n", "a", "l", " ", "S", "e", "r", "v", "e", "r", " ",
      "E", "r", "r", "o", "r">>

\* Option<Vec<u8>>
None == [some |-> FALSE, bytes |-> <<>>]
Some(b) == [some |-> TRUE, bytes |-> b]

\* The fixed table of status phrases; a code it does not hold gives "".
get_status_phrase(code) ==
    CASE code = 200 -> S_OK
      [] code = 404 -> S_NotFound
      [] code = 500 -> S_InternalServerError
      [] OTHER -> <<>>

\* HttpResponse::build
build(version, code) ==
    [version |-> version,
     status_code |-> code,
     status_phrase |-> get_status_phrase(code),
     headers |-> <<>>,
     body |-> None]

\* HashMap::insert: the new value replaces the one stored under the key.
insert_keep_old(map, k, v) == map @@ (k :> v)
insert(map, k, v) == (k :> v) @@ map

\* HttpResponse::add_header
add_header(resp, title, value) ==
    [resp EXCEPT !.headers = insert(resp.headers, to_lowercase(title), value)]

\* HttpResponse::add_body
add_body(resp, body) ==
    [resp EXCEPT !.body = Some(body),
                 !.headers = insert(resp.headers, S_content_length, to_string(Len(body)))]

\* HttpResponse::try_get_header
try_get_header(resp, title) ==
    IF to_lowercase(title) \in DOMAIN resp.headers
    THEN Some(resp.headers[to_lowercase(title)])
    ELSE None

CRLF == <<"\r", "\n">>

\* The orders in which a HashMap may hand out its keys.
KeyOrders(map) ==
    {o \in [1..Cardinality(DOMAIN map) -> DOMAIN map] :
        \A k \in DOMAIN map : \E i \in DOMAIN o : o[i] = k}

\* The loop `for (title, value) in &self.headers` of Display::fmt, the map
\* handing out its keys in the order given.
RECURSIVE WriteHeaders(_, _)
WriteHeaders(headers, order) ==
    IF order = <<>> THEN <<>>
    ELSE Head(order) \o <<":", " ">> \o headers[Head(order)] \o CRLF
         \o WriteHeaders(headers, Tail(order))

\* Display for HttpResponse: the status line, the headers, the empty line.
fmt(resp, order) ==
    resp.version \o SP \o to_string(resp.status_code) \o SP \o resp.status_phrase
    \o CRLF \o WriteHeaders(resp.headers, order) \o CRLF

\* HttpResponse::as_bytes
as_bytes_head_only(resp, order) == fmt(resp, order)
as_bytes(resp, order) ==
    IF resp.body.some THEN fmt(resp, order) \o resp.body.bytes
    ELSE fmt(resp, order)

\* -------------------------------------------------------------- filesystem

\* A path is the sequence of names below the served directory ./pages; the
\* filesystem maps each existing path to its node.
S_index_html == <<"i", "n", "d", "e", "x", ".", "h", "t", "m", "l">>
S_page_html == <<"p", "a", "g", "e", ".", "h", "t", "m", "l">>
S_not_found_html == <<"n", "o", "t", "_", "f", "o", "u", "n", "d", ".", "h", "t", "m", "l">>
S_html == <<"h", "t", "m", "l">>
S_css == <<"c", "s", "s">>
S_js == <<"j", "s">>

Dir == [kind |-> "dir", contents |-> <<>>, readable |-> TRUE]
File(c) == [kind |-> "file", contents |-> c, readable |-> TRUE]

\* "pages/not_found.html"
NotFoundPathBad == <<S_index_html>>
NotFoundPath == <<S_not_found_html>>

Err == [ok |-> FALSE, val |-> <<>>]
Ok(v) == [ok |-> TRUE, val |-> v]

\* fs::read_to_string
read_to_string(f, path) ==
    IF path \in DOMAIN f /\ f[path].kind = "file" /\ f[path].readable
    THEN Ok(f[path].contents)
    ELSE Err

\* Path::extension: the part of the file name after its last ".", absent when
\* the name has no "." or only a leading one.
LastDot(name) ==
    IF \E i \in DOMAIN name : name[i] = "."
    THEN CHOOSE i \in DOMAIN name :
            name[i] = "." /\ \A j \in DOMAIN name : name[j] = "." => j <= i
    ELSE 0

extension(name) ==
    IF LastDot(name) <= 1 THEN Err
    ELSE Ok(SubSeq(name, LastDot(name) + 1, Len(name)))

\* ------------------------------------------------------------ build_routes

\* fs::read_dir(directory): the names in the directory, in the order ord
\* (read_dir promises no order).
read_dir(f, dir, ord) ==
    SelectSeq(ord, LAMBDA n : Append(dir, n) \in DOMAIN f)

Panicked == [ok |-> FALSE, routes |-> <<>>]

\* The key of an index.html or page.html: "/" in the directory walked
\* first (route == ""), the accumulated route elsewhere.
IndexKeyIsRoute(route) == route
IndexKey(route) == IF route = <<>> THEN SLASH ELSE route

RECURSIVE build_routes(_, _, _, _)
RECURSIVE WalkEntries(_, _, _, _, _, _)

\* The body of the `for entry in ...` loop of build_routes, entry by entry;
\* acc is the HashMap built so far.
WalkEntries(f, route, dir, ord, es, acc) ==
    IF es = <<>> THEN [ok |-> TRUE, routes |-> acc]
    ELSE
      LET name == Head(es)
          path == Append(dir, name)
          sub == build_routes(f, route \o SLASH \o name, path, ord)
          ext == extension(name)
      IN  IF f[path].kind = "dir"
          THEN IF sub.ok
               THEN WalkEntries(f, route, dir, ord, Tail(es), sub.routes @@ acc)
               ELSE Panicked
          ELSE IF f[path].kind = "file"
          THEN IF ~ext.ok THEN Panicked
               ELSE IF ext.val \in {S_html, S_css, S_js}
               THEN IF name = S_index_html \/ name = S_page_html
                    THEN WalkEntries(f, route, dir, ord, Tail(es),
                                     insert(acc, IndexKey(route), path))
                    ELSE IF name = S_not_found_html
                    THEN WalkEntries(f, route, dir, ord, Tail(es), acc)
                    ELSE WalkEntries(f, route, dir, ord, Tail(es),
                                     insert(acc, route \o SLASH \o name, path))
               ELSE WalkEntries(f, route, dir, ord, Tail(es), acc)
          ELSE WalkEntries(f, route, dir, ord, Tail(es), acc)

\* build_routes(route, directory): the table of the tree below directory, or
\* a panic (an unreadable directory, a file without extension).
build_routes(f, route, dir, ord) ==
    IF dir \in DOMAIN f /\ f[dir].kind = "dir" /\ f[dir].readable
    THEN WalkEntries(f, route, dir, ord, read_dir(f, dir, ord), <<>>)
    ELSE Panicked

\* -------------------------------------------------------- handle_connection

\* What a client puts on a connection: the lines it sends, and what the
\* stream does after them: "eof" (closed), "open" (silent) or "err" (a read
\* error, or bytes that are not UTF-8).
Request(lines, end) == [lines |-> lines, end |-> end]

\* The index of the first empty line, 0 if there is none.
FirstEmpty(lines) ==
    IF \E i \in DOMAIN lines : lines[i] = <<>>
    THEN CHOOSE i \in DOMAIN lines :
            lines[i] = <<>> /\ \A j \in DOMAIN lines : lines[j] = <<>> => i <= j
    ELSE 0

\* buf_reader.lines().map(unwrap).take_while(non-empty).collect(): the lines
\* before the first empty one; without an empty line the stream's end decides.
read_request(req) ==
    IF FirstEmpty(req.lines) > 0
    THEN [outcome |-> "ok", lines |-> SubSeq(req.lines, 1, FirstEmpty(req.lines) - 1)]
    ELSE IF req.end = "eof" THEN [outcome |-> "ok", lines |-> req.lines]
    ELSE IF req.end = "err" THEN [outcome |-> "panic", lines |-> <<>>]
    ELSE [outcome |-> "hang", lines |-> <<>>]

NoCall == [made |-> FALSE]

NoResponse == [written |-> FALSE]
Written(resp) == [written |-> TRUE, resp |-> resp]

\* The key the table is searched with: the cleaned second token.
lookup_key_raw(target) == target
lookup_key(target) == clean_route(target)

\* The file handle_connection reads for a cleaned route: the value the table
\* holds for it, "pages/not_found.html" when it holds none.
filename_by_path(rts, route) ==
    IF route \in DOMAIN rts THEN rts[route]
    ELSE SelectSeq(split(route, "/"), LAMBDA part : part # <<>>)
filename_for(rts, route) ==
    IF route \in DOMAIN rts THEN rts[route] ELSE NotFoundPath

\* The value a `let` statement binds: the one element of S.
Bound(S) == CHOOSE v \in S : TRUE

\* handle_connection(stream, routes) on the filesystem f: how the call ends
\* ("ok", "panic", "hang") and what it has written to the stream.  The
\* statements are taken in the order of the code: the request lines (rd), the
\* tokens of the first line, the cleaned route, the contents of the file.
handle_connection(req, rts, f) ==
    Bound({
      IF rd.outcome # "ok" THEN [outcome |-> rd.outcome, out |-> NoResponse]
      ELSE IF rd.lines = <<>> THEN [outcome |-> "panic", out |-> NoResponse]
      ELSE Bound({
        IF Len(tokens) < 2 THEN [outcome |-> "panic", out |-> NoResponse]
        ELSE Bound({
          LET hit == route \in DOMAIN rts
              resp == IF hit THEN build(HTTP11, 200) ELSE build(HTTP11, 404)
              filename == filename_for(rts, route)
          IN  Bound({
                IF ~contents.ok THEN [outcome |-> "panic", out |-> NoResponse]
                ELSE [outcome |-> "ok",
                      out |-> Written(add_body(add_header(resp, S_ContentLength,
                                                          to_string(Len(contents.val))),
                                               contents.val))]
                : contents \in {read_to_string(f, filename)}})
          : route \in {lookup_key(tokens[2])}})
        : tokens \in {split_whitespace(rd.lines[1])}})
      : rd \in {read_request(req)}})

\* ---------------------------------------------------------- ThreadPool::new

\* The workers Vec built by the loop `for id in 0..size`.
NewWorkersBad(n) == [i \in 1..(n - 1) |-> i - 1]
NewWorkers(n) == [i \in 1..n |-> i - 1]

PoolInit ==
    /\ poolPc = "init"
    /\ workers = <<>>
    /\ wpc = <<>>
    /\ wjob = <<>>
    /\ lockHolder = NoWorker
    /\ poisoned = FALSE
    /\ queue = <<>>
    /\ senderOpen = FALSE
    /\ nsub = 0
    /\ dequeued = <<>>
    /\ completed = {}

\* ThreadPool::new(size): assert!(size > 0), then the channel, then one
\* spawned Worker per id.
ThreadPoolNew ==
    /\ poolPc = "init"
    /\ IF size > 0
       THEN /\ poolPc' = "live"
            /\ workers' = NewWorkers(size)
            /\ wpc' = [w \in Range(NewWorkers(size)) |-> "lock"]
            /\ wjob' = [w \in Range(NewWorkers(size)) |-> NoJob]
            /\ senderOpen' = TRUE
       ELSE /\ poolPc' = "newPanicked"
            /\ UNCHANGED <<workers, wpc, wjob, senderOpen>>
    /\ UNCHANGED <<size, lockHolder, poisoned, queue, nsub, dequeued, completed>>

\* ------------------------------------------------------ ThreadPool::execute

\* sender.send(job).unwrap(): the job is appended to the channel; send fails,
\* and the unwrap panics, when the Receiver has been dropped.
\* mpsc::channel() is unbounded: send does not wait for room, for a receiver
\* or for the Mutex around the Receiver, which the Sender never touches.
SendNeedsReceiverLock == lockHolder = NoWorker
SendReady == TRUE

execute(job) ==
    /\ poolPc = "live"
    /\ SendReady
    /\ IF ReceiverAlive
       THEN /\ queue' = Append(queue, job)
            /\ nsub' = nsub + 1
            /\ UNCHANGED poolPc
       ELSE /\ poolPc' = "aborted"
            /\ UNCHANGED <<queue, nsub>>
    /\ UNCHANGED <<size, workers, wpc, wjob, lockHolder, poisoned, senderOpen,
                   dequeued, completed>>

PoolExecute(kind) ==
    /\ nsub < MaxJobs
    /\ execute(Job(nsub + 1, kind, 0, <<>>))
    /\ UNCHANGED srvVars

\* --------------------------------------------------------- Drop for ThreadPool

\* drop(self.sender.take())
DropBegin ==
    /\ poolPc = "live"
    /\ poolPc' = "dropping"
    /\ senderOpen' = FALSE
    /\ UNCHANGED <<size, workers, wpc, wjob, lockHolder, poisoned, queue, nsub,
                   dequeued, completed>>

\* worker.thread.join().unwrap() for the next worker of workers.drain(..):
\* join waits for the thread to end, and the unwrap panics if it panicked.
JoinReadyNoWait(w) == TRUE
JoinReady(w) == wpc[w] \in {"exited", "panicked"}

DropJoin ==
    /\ poolPc = "dropping"
    /\ workers # <<>>
    /\ JoinReady(Head(workers))
    /\ IF wpc[Head(workers)] = "panicked"
       THEN poolPc' = "dropPanicked" /\ UNCHANGED workers
       ELSE workers' = Tail(workers) /\ UNCHANGED poolPc
    /\ UNCHANGED <<size, wpc, wjob, lockHolder, poisoned, queue, senderOpen, nsub,
                   dequeued, completed>>

\* The drain loop is over: drop returns.
DropReturn ==
    /\ poolPc = "dropping"
    /\ workers = <<>>
    /\ poolPc' = "dropped"
    /\ UNCHANGED <<size, workers, wpc, wjob, lockHolder, poisoned, queue, senderOpen,
                   nsub, dequeued, completed>>

\* -------------------------------------------------------------- Worker::new

\* reciever.lock().unwrap(): blocks while another thread holds the Mutex;
\* a poisoned Mutex makes lock() return Err and the unwrap panic.
WorkerLock(w) ==
    /\ wpc[w] = "lock"
    /\ lockHolder = NoWorker
    /\ IF poisoned
       THEN wpc' = [wpc EXCEPT ![w] = "panicked"] /\ UNCHANGED lockHolder
       ELSE wpc' = [wpc EXCEPT ![w] = "recv"] /\ lockHolder' = w
    /\ UNCHANGED <<size, poolPc, workers, wjob, poisoned, queue, senderOpen, nsub,
                   dequeued, completed>>

\* The job recv() hands out: the oldest one buffered in the channel.
RecvIndexLast(q) == Len(q)
RecvIndex(q) == 1

RemoveAtDropRest(q, i) == <<>>
RemoveAt(q, i) == SubSeq(q, 1, i - 1) \o SubSeq(q, i + 1, Len(q))

\* recv() moves the job out of the channel: what stays buffered.
QueueAfterRecvKept(q) == q
QueueAfterRecv(q) == RemoveAt(q, RecvIndex(q))

\* The MutexGuard is a temporary of the `let message = ...` statement: it is
\* dropped, and the lock released, when recv() has returned.
HolderKeepsLock(w) == w
HolderAfterRecv(w) == NoWorker

\* A MutexGuard dropped while its thread panics poisons the Mutex.
PoisonedByAnyPanic(w) == TRUE
PoisonedBy(w) == lockHolder = w

\* recv() reports the channel disconnected, Err(RecvError), only when no
\* job is buffered and the Sender has been dropped.
RecvDisconnectedOnceClosed(q, open) == ~open
RecvDisconnected(q, open) == q = <<>> /\ ~open

\* .recv(): returns Ok(job) when a job is buffered, Err when the channel is
\* empty and the Sender has been dropped, and blocks otherwise.
WorkerRecv(w) ==
    /\ wpc[w] = "recv"
    /\ lockHolder = w
    /\ IF RecvDisconnected(queue, senderOpen)
       THEN /\ wpc' = [wpc EXCEPT ![w] = "exited"]
            /\ UNCHANGED <<wjob, queue, dequeued>>
       ELSE /\ queue # <<>>
            /\ wjob' = [wjob EXCEPT ![w] = queue[RecvIndex(queue)]]
            /\ queue' = QueueAfterRecv(queue)
            /\ dequeued' = Append(dequeued, queue[RecvIndex(queue)].id)
            /\ wpc' = [wpc EXCEPT ![w] = "run"]
    /\ lockHolder' = HolderAfterRecv(w)
    /\ UNCHANGED <<size, poolPc, workers, poisoned, senderOpen, nsub, completed>>

\* What a thread that leaves the job does to the Mutex: a guard it still
\* holds is dropped; dropped during a panic, it poisons the Mutex.
ReleaseBy(w) == IF lockHolder = w THEN NoWorker ELSE lockHolder

\* How the call job() ends: a connection job ends as handle_connection does
\* on what its client sends and on the filesystem of that moment.
Behaviour(job) ==
    IF job.kind = "conn"
    THEN handle_connection(connReq[job.conn], job.routes, fs).outcome
    ELSE job.kind

\* What the job has done when job() is left: a connection job has written
\* its response, if it got that far, and its stream is dropped (closed).
JobEffect(job) ==
    IF job.kind = "conn"
    THEN /\ response' = [response EXCEPT ![job.conn] =
                            handle_connection(connReq[job.conn], job.routes, fs).out]
         /\ connState' = [connState EXCEPT ![job.conn] = "closed"]
         /\ UNCHANGED <<mainPc, fs, routes, backlog, connReq, nfs, call, respObj, ncalls>>
    ELSE UNCHANGED srvVars

\* job() returns: the worker goes round its loop.
JobReturn(w) ==
    /\ wpc[w] = "run"
    /\ Behaviour(wjob[w]) = "ok"
    /\ completed' = completed \cup {wjob[w].id}
    /\ wjob' = [wjob EXCEPT ![w] = NoJob]
    /\ wpc' = [wpc EXCEPT ![w] = "lock"]
    /\ lockHolder' = ReleaseBy(w)
    /\ JobEffect(wjob[w])
    /\ UNCHANGED <<size, poolPc, workers, poisoned, queue, senderOpen, nsub, dequeued>>

\* job() panics: nothing catches it, the worker thread unwinds and ends.
JobPanic(w) ==
    /\ wpc[w] = "run"
    /\ Behaviour(wjob[w]) = "panic"
    /\ wpc' = [wpc EXCEPT ![w] = "panicked"]
    /\ poisoned' = (poisoned \/ PoisonedBy(w))
    /\ lockHolder' = ReleaseBy(w)
    /\ JobEffect(wjob[w])
    /\ UNCHANGED <<size, poolPc, workers, wjob, queue, senderOpen, nsub, dequeued,
                   completed>>

\* --------------------------------------------------- the pool specification

\* A client that builds a pool of any size up to MaxSize, submits up to
\* MaxJobs jobs of any behaviour and drops the pool at any moment.
NoServer ==
    /\ mainPc = "none"
    /\ fs = <<>>
    /\ routes = <<>>
    /\ backlog = <<>>
    /\ connReq = <<>>
    /\ connState = <<>>
    /\ response = <<>>
    /\ nfs = 0
    /\ call = NoCall
    /\ respObj = <<>>
    /\ ncalls = 0

InitPool ==
    /\ size \in 0..MaxSize
    /\ PoolInit
    /\ NoServer

NextPool ==
    \/ ThreadPoolNew /\ UNCHANGED srvVars
    \/ \E k \in JobKinds : PoolExecute(k)
    \/ DropBegin /\ UNCHANGED srvVars
    \/ DropJoin /\ UNCHANGED srvVars
    \/ DropReturn /\ UNCHANGED srvVars
    \/ \E w \in DOMAIN wpc : WorkerLock(w) /\ UNCHANGED srvVars
    \/ \E w \in DOMAIN wpc : WorkerRecv(w) /\ UNCHANGED srvVars
    \/ \E w \in DOMAIN wpc : JobReturn(w)
    \/ \E w \in DOMAIN wpc : JobPanic(w)

SpecPool == InitPool /\ [][NextPool]_vars

\* ------------------------------------------------ the pool, fairly scheduled

\* One step of worker w's thread in the pool alone.
PoolWorkerStep(w) ==
    /\ w \in DOMAIN wpc
    /\ \/ WorkerLock(w) /\ UNCHANGED srvVars
       \/ WorkerRecv(w) /\ UNCHANGED srvVars
       \/ JobReturn(w)
       \/ JobPanic(w)

\* One step of the thread that runs drop, once drop has begun.
DropStep == (DropJoin \/ DropReturn) /\ UNCHANGED srvVars

\* The operating system schedules every thread that can run: each worker
\* thread, and the thread in drop, take a step when one stays possible. When
\* the owner of the pool submits a job or drops the pool is its own choice.
FairPool ==
    /\ WF_vars(DropStep)
    /\ \A w \in 0..(MaxSize - 1) : WF_vars(PoolWorkerStep(w))

SpecPoolFair == InitPool /\ [][NextPool]_vars /\ FairPool

\* --------------------------------------------------------------- the server

\* let pool = ThreadPool::new(4)
POOL_SIZE == 4

\* Number of connections made to the server.
MaxConns == 2
\* Number of connections made when every client sends GET /.
MaxGetConns == 5
\* Number of times a file below ./pages is changed while the server runs.
MaxFsChanges == 1

S_hi == <<"h", "i">>

\* The served tree at startup: index.html, not_found.html and a directory
\* hi holding page.html.
InitialFs ==
    (<<>> :> Dir)
    @@ (<<S_index_html>> :> File(<<"H", "e", "l", "l", "o", ",", " ", "R", "u", "s", "t">>))
    @@ (<<S_not_found_html>> :> File(<<"U", "h", " ", "o", "h", "!">>))
    @@ (<<S_hi>> :> Dir)
    @@ (<<S_hi, S_page_html>> :> File(<<"H", "o", "w", "d", "y">>))

\* The orders in which read_dir may list the names of a tree.
Names(f) == {p[Len(p)] : p \in DOMAIN f \ {<<>>}}
Orders(f) ==
    {o \in [1..Cardinality(Names(f)) -> Names(f)] :
        \A n \in Names(f) : \E i \in DOMAIN o : o[i] = n}

S_GET == <<"G", "E", "T">>
S_POST == <<"P", "O", "S", "T">>
S_Host == <<"H", "o", "s", "t", ":", " ", "a">>

RequestLine(method, target) == method \o SP \o target \o SP \o HTTP11

\* A well-formed request: request line, a Host header, the empty line; the
\* client then waits for the response.
GoodRequest(method, target) ==
    Request(<<RequestLine(method, target), S_Host, <<>>>>, "open")

T_root == <<"/">>
T_double == <<"/", "/">>
T_hi_slash == <<"/", "h", "i", "/">>
T_dots == <<"/", ".", ".", "/", "h", "i", "/", ".">>
T_nope == <<"/", "x">>
T_page == <<"/", "h", "i", "/", "p", "a", "g", "e", ".", "h", "t", "m", "l">>

T_deep == <<"/", "a", "/", "b">>
T_not_found == <<"/", "n", "o", "t", "_", "f", "o", "u", "n", "d", ".", "h", "t", "m", "l">>

Targets == {T_root, T_double, T_hi_slash, T_dots, T_nope, T_page, T_deep, T_not_found}

\* Requests handle_connection cannot parse: an empty first line, a stream
\* closed before any byte, a request line of one token, a failing read.
EmptyRequest == Request(<<<<>>>>, "open")
ClosedAtOnce == Request(<<>>, "eof")
OneToken == Request(<<S_GET, <<>>>>, "open")
BrokenRead == Request(<<>>, "err")
\* A client that sends a request line and then nothing.
Silent == Request(<<RequestLine(S_GET, T_root)>>, "open")

Unparseable == {EmptyRequest, ClosedAtOnce, OneToken, BrokenRead}

\* What the clients of the running server send: a request for a route of
\* the table, one for a route that is not in it, a request that cannot be
\* parsed, and a request that is never finished.
Requests == {GoodRequest(S_GET, T_root), GoodRequest(S_GET, T_nope), OneToken, Silent}

NoRequest == Request(<<>>, "none")

\* The process at the start of main, with n connections to come.
ServerStart(n) ==
    /\ size = POOL_SIZE
    /\ PoolInit
    /\ mainPc = "start"
    /\ fs = InitialFs
    /\ routes = <<>>
    /\ backlog = <<>>
    /\ connReq = [c \in 1..n |-> NoRequest]
    /\ connState = [c \in 1..n |-> "none"]
    /\ response = [c \in 1..n |-> NoResponse]
    /\ nfs = 0
    /\ call = NoCall
    /\ respObj = <<>>
    /\ ncalls = 0

InitServer == ServerStart(MaxConns)

\* TcpListener::bind(full_address).unwrap()
MainBind ==
    /\ mainPc = "start"
    /\ mainPc' = "bound"
    /\ UNCHANGED <<poolVars, fs, routes, backlog, connReq, connState, response, nfs, call, respObj, ncalls>>

\* let pool = ThreadPool::new(4)
MainNewPool ==
    /\ mainPc = "bound"
    /\ ThreadPoolNew
    /\ mainPc' = IF size > 0 THEN "pooled" ELSE "panicked"
    /\ UNCHANGED <<fs, routes, backlog, connReq, connState, response, nfs, call, respObj, ncalls>>

\* let routes = build_routes(String::from(""), path): the table of the tree
\* as it is now, for some order of the directory listings; a panic of the
\* walk is a panic of main.
MainBuildRoutes ==
    /\ mainPc = "pooled"
    /\ \E ord \in Orders(fs) :
        LET r == build_routes(fs, <<>>, <<>>, ord)
        IN  IF r.ok
            THEN routes' = r.routes /\ mainPc' = "accept"
            ELSE UNCHANGED routes /\ mainPc' = "panicked"
    /\ UNCHANGED <<poolVars, fs, backlog, connReq, connState, response, nfs, call, respObj, ncalls>>

\* routes.clone()
clone_empty(rts) == <<>>
clone(rts) == rts

\* One round of `for stream in listener.incoming()`: the oldest pending
\* connection is accepted and its handler submitted to the pool; a panic of
\* execute is a panic of main.
MainAccept ==
    /\ mainPc = "accept"
    /\ backlog # <<>>
    /\ execute(Job(nsub + 1, "conn", Head(backlog), clone(routes)))
    /\ mainPc' = IF ReceiverAlive THEN mainPc ELSE "panicked"
    /\ backlog' = Tail(backlog)
    /\ connState' = [connState EXCEPT ![Head(backlog)] = "queued"]
    /\ UNCHANGED <<fs, routes, connReq, response, nfs, call, respObj, ncalls>>

\* A client connects to the bound listener and sends req. Connections are
\* numbered in the order in which they are made.
Connect(c, req) ==
    /\ mainPc \notin {"none", "start"}
    /\ connState[c] = "none"
    /\ \A d \in DOMAIN connState : d < c => connState[d] # "none"
    /\ connReq' = [connReq EXCEPT ![c] = req]
    /\ connState' = [connState EXCEPT ![c] = "pending"]
    /\ backlog' = Append(backlog, c)
    /\ UNCHANGED <<poolVars, mainPc, fs, routes, response, nfs, call, respObj, ncalls>>

\* Somebody makes a served file unreadable (removes it, takes the
\* permission away) while the server runs.
FsRemove(path) ==
    /\ nfs < MaxFsChanges
    /\ path \in DOMAIN fs
    /\ fs[path].kind = "file"
    /\ fs[path].readable
    /\ fs' = [fs EXCEPT ![path].readable = FALSE]
    /\ nfs' = nfs + 1
    /\ UNCHANGED <<poolVars, mainPc, routes, backlog, connReq, connState, response, call, respObj, ncalls>>

\* Somebody edits a served file while the server runs.
FsEdit(path) ==
    /\ nfs < MaxFsChanges
    /\ path \in DOMAIN fs
    /\ fs[path].kind = "file"
    /\ fs[path].readable
    /\ fs' = [fs EXCEPT ![path].contents = fs[path].contents \o <<"!">>]
    /\ nfs' = nfs + 1
    /\ UNCHANGED <<poolVars, mainPc, routes, backlog, connReq, connState, response, call, respObj, ncalls>>

Next ==
    \/ MainBind
    \/ MainNewPool
    \/ MainBuildRoutes
    \/ MainAccept
    \/ \E c \in DOMAIN connState, req \in Requests : Connect(c, req)
    \/ \E path \in DOMAIN fs : FsRemove(path)
    \/ \E w \in DOMAIN wpc : WorkerLock(w) /\ UNCHANGED srvVars
    \/ \E w \in DOMAIN wpc : WorkerRecv(w) /\ UNCHANGED srvVars
    \/ \E w \in DOMAIN wpc : JobReturn(w)
    \/ \E w \in DOMAIN wpc : JobPanic(w)

Spec == InitServer /\ [][Next]_vars

\* ------------------------------------------- the server under GET / clients

\* MaxGetConns clients, more than the pool has workers, each send GET /;
\* nobody touches the served files. Every thread of the server that can take
\* a step eventually takes one.
InitGet == ServerStart(MaxGetConns)

NextGet ==
    \/ MainBind
    \/ MainNewPool
    \/ MainBuildRoutes
    \/ MainAccept
    \/ \E c \in DOMAIN connState : Connect(c, GoodRequest(S_GET, T_root))
    \/ \E w \in DOMAIN wpc : WorkerLock(w) /\ UNCHANGED srvVars
    \/ \E w \in DOMAIN wpc : WorkerRecv(w) /\ UNCHANGED srvVars
    \/ \E w \in DOMAIN wpc : JobReturn(w)

\* One step of the main thread.
MainStep == MainBind \/ MainNewPool \/ MainBuildRoutes \/ MainAccept

\* One step of worker w's loop while the server handles GET / connections.
WorkerStep(w) ==
    /\ w \in DOMAIN wpc
    /\ \/ WorkerLock(w) /\ UNCHANGED srvVars
       \/ WorkerRecv(w) /\ UNCHANGED srvVars
       \/ JobReturn(w)

\* The operating system schedules every thread that can run: the main thread
\* and each worker thread take a step when one stays possible.
FairGet ==
    /\ WF_vars(MainStep)
    /\ \A w \in 0..(POOL_SIZE - 1) : WF_vars(WorkerStep(w))

SpecGet == InitGet /\ [][NextGet]_vars /\ FairGet

\* ------------------------------------------------ handle_connection alone

\* Methods and targets of the well-formed requests given to the handler.
Methods == {S_GET, S_POST}

HandlerRequests ==
    {GoodRequest(m, t) : m \in Methods, t \in Targets}
    \cup Unparseable
    \cup {Silent}

\* The table main has built from the tree at startup.
BuiltTables(f) ==
    {build_routes(f, <<>>, <<>>, ord).routes :
        ord \in {o \in Orders(f) : build_routes(f, <<>>, <<>>, o).ok}}

InitHandler ==
    /\ size = POOL_SIZE
    /\ PoolInit
    /\ mainPc = "accept"
    /\ fs = InitialFs
    /\ routes \in BuiltTables(InitialFs)
    /\ backlog = <<>>
    /\ connReq = <<>>
    /\ connState = <<>>
    /\ response = <<>>
    /\ nfs = 0
    /\ call = NoCall
    /\ respObj = <<>>
    /\ ncalls = 0

\* handle_connection is called on a stream carrying req, with the table and
\* the filesystem of the moment.
HandlerCall(req) ==
    /\ call' = [made |-> TRUE,
                req |-> req,
                fsAt |-> fs,
                outcome |-> handle_connection(req, clone(routes), fs).outcome,
                out |-> handle_connection(req, clone(routes), fs).out]
    /\ UNCHANGED <<poolVars, mainPc, fs, routes, backlog, connReq, connState,
                   response, nfs, respObj, ncalls>>

NextHandler ==
    \/ \E req \in HandlerRequests : HandlerCall(req)
    \/ \E path \in DOMAIN fs : FsRemove(path)
    \/ \E path \in DOMAIN fs : FsEdit(path)

SpecHandler == InitHandler /\ [][NextHandler]_vars

\* ------------------------------------------------------- HttpResponse alone

\* Number of add_header / add_body calls made on one response.
MaxCalls == 3

Titles == {S_ContentLength, S_content_length, <<"A">>}
Values == {<<"0">>, <<"2">>, <<"7">>}
Bodies == {<<>>, <<"h", "i">>, <<"0", "1", "2", "3", "4", "5", "6", "7", "8", "9">>}

\* A caller builds a response and calls add_header and add_body on it, in
\* any order, up to MaxCalls times.
InitResponse ==
    /\ size = POOL_SIZE
    /\ PoolInit
    /\ mainPc = "none"
    /\ fs = <<>>
    /\ routes = <<>>
    /\ backlog = <<>>
    /\ connReq = <<>>
    /\ connState = <<>>
    /\ response = <<>>
    /\ nfs = 0
    /\ call = NoCall
    /\ respObj \in {build(HTTP11, code) : code \in {200, 404, 999}}
    /\ ncalls = 0

RespAddHeader(title, value) ==
    /\ ncalls < MaxCalls
    /\ respObj' = add_header(respObj, title, value)
    /\ ncalls' = ncalls + 1
    /\ UNCHANGED <<poolVars, mainPc, fs, routes, backlog, connReq, connState,
                   response, nfs, call>>

RespAddBody(body) ==
    /\ ncalls < MaxCalls
    /\ respObj' = add_body(respObj, body)
    /\ ncalls' = ncalls + 1
    /\ UNCHANGED <<poolVars, mainPc, fs, routes, backlog, connReq, connState,
                   response, nfs, call>>

NextResponse ==
    \/ \E title \in Titles, value \in Values : RespAddHeader(title, value)
    \/ \E body \in Bodies : RespAddBody(body)

SpecResponse == InitResponse /\ [][NextResponse]_vars

\* ------------------------------------------------ HttpResponse::as_bytes

\* The status codes responses are built with: those of the table and one
\* that the table does not hold.
Codes == {200, 404, 500, 999}

InitBytes ==
    /\ size = POOL_SIZE
    /\ PoolInit
    /\ mainPc = "none"
    /\ fs = <<>>
    /\ routes = <<>>
    /\ backlog = <<>>
    /\ connReq = <<>>
    /\ connState = <<>>
    /\ response = <<>>
    /\ nfs = 0
    /\ call = NoCall
    /\ respObj \in {build(HTTP11, code) : code \in Codes}
    /\ ncalls = 0

\* as_bytes is called, once, on the response as it is, and the header map
\* hands out its keys in the order given.
AsBytesCall(order) ==
    /\ ~call.made
    /\ call' = [made |-> TRUE,
                resp |-> respObj,
                order |-> order,
                out |-> as_bytes(respObj, order)]
    /\ UNCHANGED <<poolVars, mainPc, fs, routes, backlog, connReq, connState,
                   response, nfs, respObj, ncalls>>

NextBytes ==
    \/ \E title \in Titles, value \in Values : RespAddHeader(title, value)
    \/ \E body \in Bodies : RespAddBody(body)
    \/ \E order \in KeyOrders(respObj.headers) : AsBytesCall(order)

SpecBytes == InitBytes /\ [][NextBytes]_vars

\* ------------------------------------------------- http_method_from_string

S_HEAD == <<"H", "E", "A", "D">>
S_PUT == <<"P", "U", "T">>
S_DELETE == <<"D", "E", "L", "E", "T", "E">>
S_CONNECT == <<"C", "O", "N", "N", "E", "C", "T">>
S_OPTIONS == <<"O", "P", "T", "I", "O", "N", "S">>
S_TRACE == <<"T", "R", "A", "C", "E">>
S_PATCH == <<"P", "A", "T", "C", "H">>

\* The nine variants of HttpMethods, each written as its name.
HttpMethods ==
    {S_GET, S_HEAD, S_POST, S_PUT, S_DELETE, S_CONNECT, S_OPTIONS, S_TRACE, S_PATCH}

\* http_method_from_string: a match on the nine literals.
http_method_any_case(method) ==
    IF \E n \in HttpMethods : to_lowercase(n) = to_lowercase(method)
    THEN Some(CHOOSE n \in HttpMethods : to_lowercase(n) = to_lowercase(method))
    ELSE None
http_method_from_string(method) ==
    IF method \in HttpMethods THEN Some(method) ELSE None

\* ------------------------------------------- HttpRequest::build_from_stream

MAX_HEADER_LINE_LEN == 8192

CR == "\r"
LF == "\n"
COLON == ":"

\* The least element of a non-empty set of positions.
Min(S) == CHOOSE i \in S : \A j \in S : i <= j
Max(S) == CHOOSE i \in S : \A j \in S : j <= i

\* The positions from pos on at which a line of the stream ends.
LineEndsCrLfOnly(b, pos) ==
    {i \in pos..Len(b) : b[i] = LF /\ i > pos /\ b[i - 1] = CR}
LineEnds(b, pos) == {i \in pos..Len(b) : b[i] = LF}

\* BufRead::read_line on the bytes b from position pos: the bytes up to and
\* including the next LF; at the end of the bytes, what is left (possibly
\* nothing) if the peer has closed ("eof"), an error if the read fails
\* ("err"), and no return while the peer stays silent ("open").
read_line(b, end, pos) ==
    IF LineEnds(b, pos) # {}
    THEN [res |-> "ok", line |-> SubSeq(b, pos, Min(LineEnds(b, pos))),
          next |-> Min(LineEnds(b, pos)) + 1]
    ELSE IF end = "eof"
    THEN [res |-> "ok", line |-> SubSeq(b, pos, Len(b)), next |-> Len(b) + 1]
    ELSE IF end = "err" THEN [res |-> "IoError", line |-> <<>>, next |-> pos]
    ELSE [res |-> "hang", line |-> <<>>, next |-> pos]

\* str::trim_end_matches for a set of bytes.
RECURSIVE trim_end_matches(_, _)
trim_end_matches(s, cs) ==
    IF s # <<>> /\ s[Len(s)] \in cs
    THEN trim_end_matches(SubSeq(s, 1, Len(s) - 1), cs)
    ELSE s

RECURSIVE trim_start(_)
trim_start(s) ==
    IF s # <<>> /\ s[1] \in Whitespace THEN trim_start(Tail(s)) ELSE s

\* str::trim
trim(s) == trim_start(trim_end_matches(s, Whitespace))

\* line.len() > MAX_HEADER_LINE_LEN
TooLongAtCap(line) == Len(line) >= MAX_HEADER_LINE_LEN
TooLong(line) == Len(line) > MAX_HEADER_LINE_LEN

\* SplitWhitespace::next on s from position pos: the next maximal run of
\* non-whitespace bytes and the position after it, or none.
next_token(s, pos) ==
    LET starts == {i \in pos..Len(s) :
                      s[i] \notin Whitespace /\ (i = pos \/ s[i - 1] \in Whitespace)}
        a == Min(starts)
        ws == {j \in a..Len(s) : s[j] \in Whitespace}
        e == IF ws = {} THEN Len(s) ELSE Min(ws) - 1
    IN  IF starts = {}
        THEN [some |-> FALSE, bytes |-> <<>>, next |-> Len(s) + 1]
        ELSE [some |-> TRUE, bytes |-> SubSeq(s, a, e), next |-> e + 1]

\* str::split_once(":"): the parts before and after the first colon.
rsplit_once(s, ch) ==
    LET cs == {i \in DOMAIN s : s[i] = ch}
    IN  IF cs = {} THEN [some |-> FALSE, title |-> <<>>, value |-> <<>>]
        ELSE [some |-> TRUE, title |-> SubSeq(s, 1, Max(cs) - 1),
              value |-> SubSeq(s, Max(cs) + 1, Len(s))]
split_once(s, ch) ==
    LET cs == {i \in DOMAIN s : s[i] = ch}
    IN  IF cs = {} THEN [some |-> FALSE, title |-> <<>>, value |-> <<>>]
        ELSE [some |-> TRUE, title |-> SubSeq(s, 1, Min(cs) - 1),
              value |-> SubSeq(s, Min(cs) + 1, Len(s))]

\* HttpRequest::build
HttpRequest_build(method, target, version) ==
    [method |-> method, target |-> target, version |-> version,
     headers |-> <<>>, body |-> None]

\* HttpRequest::add_header
HttpRequest_add_header(request, title, value) ==
    [request EXCEPT !.headers = insert(request.headers, to_lowercase(title), value)]

\* HttpRequest::add_body
HttpRequest_add_body(request, body) == [request EXCEPT !.body = Some(body)]

\* usize::MAX and isize::MAX of the 64-bit target, in decimal digits.
UsizeMaxDigits == <<"1", "8", "4", "4", "6", "7", "4", "4", "0", "7", "3", "7", "0", "9", "5", "5", "1", "6", "1", "5">>
IsizeMaxDigits == <<"9", "2", "2", "3", "3", "7", "2", "0", "3", "6", "8", "5", "4", "7", "7", "5", "8", "0", "7">>

DigitChars == Range(Digits)
DigitOf(ch) == CHOOSE d \in 0..9 : Digits[d + 1] = ch

RECURSIVE StripZeros(_)
StripZeros(d) ==
    IF Len(d) > 1 /\ d[1] = "0" THEN StripZeros(Tail(d)) ELSE d

\* a <= b for two numbers written in decimal digits without leading zeros.
DigitsLE(a, b) ==
    \/ Len(a) < Len(b)
    \/ /\ Len(a) = Len(b)
       /\ \/ a = b
          \/ \E i \in DOMAIN a :
                /\ DigitOf(a[i]) < DigitOf(b[i])
                /\ \A j \in 1..(i - 1) : a[j] = b[j]

\* str::parse::<usize>: an optional "+", then one or more decimal digits
\* denoting a number up to usize::MAX; Ok holds the number in decimal digits.
parse_usize(s) ==
    LET ds == IF s # <<>> /\ s[1] = "+" THEN Tail(s) ELSE s
    IN  IF ds = <<>> \/ \E i \in DOMAIN ds : ds[i] \notin DigitChars THEN Err
        ELSE IF DigitsLE(StripZeros(ds), UsizeMaxDigits) THEN Ok(StripZeros(ds))
        ELSE Err

\* vec![0u8; len]: a Vec of more than isize::MAX bytes cannot be made; the
\* macro panics with "capacity overflow".
vec_capacity_ok(len) == DigitsLE(len, IsizeMaxDigits)

\* Read::read_exact of len bytes (in decimal digits) from position pos: the
\* bytes if the stream holds that many; otherwise an error if the peer has
\* closed or the read fails, and no return while the peer stays silent.
read_exact(b, end, pos, len) ==
    IF Len(len) <= 9 /\ pos + DecimalValue(len) - 1 <= Len(b)
    THEN [res |-> "ok", bytes |-> SubSeq(b, pos, pos + DecimalValue(len) - 1)]
    ELSE IF end = "open" THEN [res |-> "hang", bytes |-> <<>>]
    ELSE [res |-> "IoError", bytes |-> <<>>]

\* What build_from_stream gives: Ok(request), Err(kind), or no value when
\* the call blocks ("hang") or panics ("panic").
Parsed(request) == [kind |-> "Ok", request |-> request]
NotParsed(kind) == [kind |-> kind, request |-> <<>>]

S_host == <<"h", "o", "s", "t">>

\* request.version == "HTTP/1.1" && !request.headers.contains_key("host")
HostRequiredAlways(request) == S_host \notin DOMAIN request.headers
HostMissing(request) ==
    request.version = HTTP11 /\ S_host \notin DOMAIN request.headers

\* The body part of build_from_stream, from position pos of the stream.
read_body(b, end, pos, request) ==
    LET cl == parse_usize(request.headers[S_content_length])
        got == read_exact(b, end, pos, cl.val)
    IN  IF S_content_length \notin DOMAIN request.headers THEN Parsed(request)
        ELSE IF ~cl.ok THEN Parsed(request)
        ELSE IF cl.val = <<"0">> THEN Parsed(request)
        ELSE IF ~vec_capacity_ok(cl.val) THEN NotParsed("panic")
        ELSE IF got.res # "ok" THEN NotParsed(got.res)
        ELSE Parsed(HttpRequest_add_body(request, got.bytes))

\* if header_line.is_empty() { break; }
\* let Some((title, value)) = header_line.split_once(":") else { break; };
EndOfHeadersBlankOnly(header_line, kv) == header_line = <<>>
EndOfHeaders(header_line, kv) == header_line = <<>> \/ ~kv.some

\* The header loop of build_from_stream, from position pos of the stream,
\* and what follows it.
RECURSIVE read_headers(_, _, _, _)
read_headers(b, end, pos, request) ==
    LET rl == read_line(b, end, pos)
        header_line == trim_end_matches(rl.line, {CR, LF})
        kv == split_once(header_line, COLON)
        after == IF HostMissing(request) THEN NotParsed("MissingHostHeader")
                 ELSE read_body(b, end, rl.next, request)
    IN  IF rl.res # "ok" THEN NotParsed(rl.res)
        ELSE IF Len(rl.line) = 0 THEN after
        ELSE IF TooLong(header_line) THEN NotParsed("HeaderTooLong")
        ELSE IF EndOfHeaders(header_line, kv) THEN after
        ELSE read_headers(b, end, rl.next,
                          HttpRequest_add_header(request, kv.title, trim(kv.value)))

\* HttpRequest::build_from_stream on a stream that carries the bytes b and
\* then ends as `end` says.
build_from_stream(b, end) ==
    LET rl == read_line(b, end, 1)
        line == trim_end_matches(rl.line, {CR, LF})
        t1 == next_token(line, 1)
        method == http_method_from_string(t1.bytes)
        t2 == next_token(line, t1.next)
        t3 == next_token(line, t2.next)
    IN  IF rl.res # "ok" THEN NotParsed(rl.res)
        ELSE IF TooLong(line) THEN NotParsed("HeaderTooLong")
        ELSE IF ~t1.some THEN NotParsed("MalformedRequestLine")
        ELSE IF ~method.some THEN NotParsed("MalformedRequestLine")
        ELSE IF ~t2.some THEN NotParsed("MalformedRequestLine")
        ELSE IF ~t3.some THEN NotParsed("MalformedRequestLine")
        ELSE read_headers(b, end, rl.next,
                          HttpRequest_build(method.bytes, t2.bytes, t3.bytes))

\* ------------------------------------------------- build_from_stream alone

\* A line a client sends: the bytes text followed by fill bytes "x".
Line(text, fill) == [text |-> text, fill |-> fill]
LineBytes(l) == l.text \o [i \in 1..l.fill |-> "x"]

\* What a client sends: a request line, header lines, an empty line if
\* blank, then the body bytes, every line ended by LF or by CR LF as eol
\* says; after that the stream ends as `end` says.
Sent(line, headers, eol, blank, body, end) ==
    [line |-> line, headers |-> headers, eol |-> eol, blank |-> blank,
     body |-> body, end |-> end]

Eol(eol) == IF eol = "crlf" THEN <<CR, LF>> ELSE <<LF>>

RECURSIVE Joined(_, _)
Joined(lines, eol) ==
    IF lines = <<>> THEN <<>>
    ELSE LineBytes(Head(lines)) \o Eol(eol) \o Joined(Tail(lines), eol)

\* The bytes on the wire.
StreamBytes(d) ==
    Joined(<<d.line>> \o d.headers, d.eol)
    \o (IF d.blank THEN Eol(d.eol) ELSE <<>>)
    \o d.body

\* The same request written with the other line terminator.
OtherEol(d) == [d EXCEPT !.eol = IF d.eol = "crlf" THEN "lf" ELSE "crlf"]

HTTP10 == <<"H", "T", "T", "P", "/", "1", ".", "0">>
S_get == <<"g", "e", "t">>
S_Get == <<"G", "e", "t">>
S_GETS == <<"G", "E", "T", "S">>
S_http11 == <<"h", "t", "t", "p", "/", "1", ".", "1">>

\* Request lines of three tokens, well-formed or not.
ThreeTokenLines ==
    {RequestLine(S_GET, T_root),
     RequestLine(S_POST, T_hi_slash),
     S_GET \o SP \o T_root \o SP \o HTTP10,
     S_GET \o SP \o T_root \o SP \o S_http11,
     S_GET \o <<" ", "\t">> \o T_root \o <<" ", " ">> \o HTTP11,
     RequestLine(S_get, T_root),
     RequestLine(S_Get, T_root),
     RequestLine(S_GETS, T_root)}

\* Request lines of zero, one, two, four and five tokens.
OtherTokenLines ==
    {<<>>,
     SP,
     S_GET,
     S_GET \o SP \o T_root,
     S_get \o SP \o T_root,
     RequestLine(S_GET, T_root) \o SP \o <<"x">>,
     S_GET \o SP \o T_root \o SP \o HTTP10 \o SP \o <<"x">> \o SP \o <<"y">>}

\* Lines around the cap: of exactly MAX_HEADER_LINE_LEN bytes and one more,
\* with three tokens and with two.
CapLines ==
    {Line(t, MAX_HEADER_LINE_LEN - Len(t) + over) :
        t \in {S_GET \o SP \o T_root \o SP \o HTTP10, S_GET \o SP \o T_root},
        over \in {0, 1}}

RequestLines ==
    {Line(t, 0) : t \in ThreeTokenLines \cup OtherTokenLines} \cup CapLines

S_HostLine == <<"H", "o", "s", "t", ":", " ", "a">>
S_hostLine == <<"h", "o", "s", "t", ":", "a">>
S_HOSTLine == <<"H", "O", "S", "T", ":", " ", "\t", " ", "a", " ", " ">>
S_HostSpaceLine == <<"H", "o", "s", "t", " ", ":", " ", "a">>
S_HostColonLine == <<"H", "o", "s", "t", ":", " ", "a", ":", "b">>

\* Ways of sending, or not sending, a Host header.
HostLines ==
    {<<>>, <<S_HostLine>>, <<S_hostLine>>, <<S_HOSTLine>>, <<S_HostSpaceLine>>,
     <<S_HostColonLine>>}

\* Values of a Content-Length header.
LengthValues ==
    {<<"0">>, <<"2">>, <<"5">>, <<"+", "2">>, <<"0", "0", "2">>, <<"x">>, <<"-", "1">>, <<>>,
     <<"2", " ", "3">>, <<"9", "2", "2", "3", "3", "7", "2", "0", "3", "6", "8", "5", "4", "7", "7", "5", "8", "0", "8">>, <<"1", "8", "4", "4", "6", "7", "4", "4", "0", "7", "3", "7", "0", "9", "5", "5", "1", "6", "1", "6">>}

ContentLengthLine(v) == S_ContentLength \o <<":", " ">> \o v

S_X1 == <<"X", "-", "A", ":", " ", "1">>
S_x2 == <<"x", "-", "a", ":", "2", " ">>
S_garbage == <<"g", "a", "r", "b", "a", "g", "e">>

\* The header lines sent besides Host: none, a Content-Length, a header
\* sent twice in two spellings, a line without a colon.
MoreLines ==
    {<<>>, <<S_X1, S_x2>>, <<S_x2, S_X1>>, <<S_garbage>>}
    \cup {<<ContentLengthLine(v)>> : v \in LengthValues}

\* Header lines around the cap.
CapHeaderLines ==
    {Line(<<"X", ":", " ">>, MAX_HEADER_LINE_LEN - 3 + over) : over \in {0, 1}}

HeaderLists ==
    {[i \in DOMAIN (h \o m) |-> Line((h \o m)[i], 0)] : h \in HostLines, m \in MoreLines}
    \cup {[i \in DOMAIN (m \o h) |-> Line((m \o h)[i], 0)] :
             h \in {<<S_HostLine>>}, m \in {<<S_garbage>>, <<S_X1, S_x2>>}}
    \cup {<<Line(S_HostLine, 0), c>> : c \in CapHeaderLines}

SentBodies == {<<>>, <<"h", "i">>, <<"h", LF, "i", "!", "!">>}
Eols == {"lf", "crlf"}
Ends == {"eof", "open", "err"}

\* The streams build_from_stream is given: every request line with and
\* without a Host header, and two well-formed request lines with every list
\* of header lines, body and end of stream.
Streams ==
    {Sent(l, [i \in DOMAIN h |-> Line(h[i], 0)], e, TRUE, <<>>, "eof") :
        l \in RequestLines, h \in {<<>>, <<S_HostLine>>}, e \in Eols}
    \cup
    {Sent(Line(t, 0), hs, e, blank, body, end) :
        t \in {RequestLine(S_GET, T_root), S_GET \o SP \o T_root \o SP \o HTTP10},
        hs \in HeaderLists, e \in Eols, blank \in BOOLEAN,
        body \in SentBodies, end \in Ends}

InitParse ==
    /\ size = POOL_SIZE
    /\ PoolInit
    /\ mainPc = "none"
    /\ fs = <<>>
    /\ routes = <<>>
    /\ backlog = <<>>
    /\ connReq = <<>>
    /\ connState = <<>>
    /\ response = <<>>
    /\ nfs = 0
    /\ call = NoCall
    /\ respObj = <<>>
    /\ ncalls = 0

\* build_from_stream is called, once, on a stream carrying d; the same
\* request written with the other line terminator is parsed beside it.
ParseCall(d) ==
    /\ ~call.made
    /\ call' = [made |-> TRUE,
                req |-> d,
                out |-> build_from_stream(StreamBytes(d), d.end),
                twin |-> build_from_stream(StreamBytes(OtherEol(d)), d.end)]
    /\ UNCHANGED <<poolVars, mainPc, fs, routes, backlog, connReq, connState,
                   response, nfs, respObj, ncalls>>

NextParse == \E d \in Streams : ParseCall(d)

SpecParse == InitParse /\ [][NextParse]_vars

\* ---------------------------------------- build_from_stream, stage by stage

\* The stages of build_from_stream in the order of its code: the request
\* line, the header loop, the host check, the body, and the return.
Stages == <<"request_line", "headers", "host", "body", "done">>
StageRank(stage) == CHOOSE i \in DOMAIN Stages : Stages[i] = stage

\* Where the code goes when the header loop is left by a break.
StageAfterHeadersIsBody == "body"
StageAfterHeaders == "host"

\* The call's frame: the stream it reads, its stage, the position of the
\* next unread byte of the BufReader, the request built so far, the result.
Frame(d, stage, pos, request, out) ==
    [made |-> TRUE, req |-> d, stage |-> stage, pos |-> pos,
     request |-> request, out |-> out]

Returned(pos, out) ==
    [call EXCEPT !.stage = "done", !.pos = pos, !.out = out]

\* build_from_stream is called, once, on a stream carrying d.
StagedCall(d) ==
    /\ ~call.made
    /\ call' = Frame(d, "request_line", 1, <<>>, NotParsed("none"))
    /\ UNCHANGED <<poolVars, mainPc, fs, routes, backlog, connReq, connState,
                   response, nfs, respObj, ncalls>>

\* "Parse request line": read_line, the cap, the three tokens, build. A read
\* that blocks takes no step.
ParseRequestLine ==
    /\ call.made
    /\ call.stage = "request_line"
    /\ LET rl == read_line(StreamBytes(call.req), call.req.end, call.pos)
           line == trim_end_matches(rl.line, {CR, LF})
           t1 == next_token(line, 1)
           method == http_method_from_string(t1.bytes)
           t2 == next_token(line, t1.next)
           t3 == next_token(line, t2.next)
       IN  /\ rl.res # "hang"
           /\ call' =
                IF rl.res # "ok" THEN Returned(call.pos, NotParsed(rl.res))
                ELSE IF TooLong(line)
                THEN Returned(rl.next, NotParsed("HeaderTooLong"))
                ELSE IF ~t1.some \/ ~method.some \/ ~t2.some \/ ~t3.some
                THEN Returned(rl.next, NotParsed("MalformedRequestLine"))
                ELSE [call EXCEPT
                        !.stage = "headers",
                        !.pos = rl.next,
                        !.request = HttpRequest_build(method.bytes, t2.bytes,
                                                      t3.bytes)]
    /\ UNCHANGED <<poolVars, mainPc, fs, routes, backlog, connReq, connState,
                   response, nfs, respObj, ncalls>>

\* One turn of the "Parse headers" loop.
ParseHeaderLine ==
    /\ call.made
    /\ call.stage = "headers"
    /\ LET rl == read_line(StreamBytes(call.req), call.req.end, call.pos)
           header_line == trim_end_matches(rl.line, {CR, LF})
           kv == split_once(header_line, COLON)
       IN  /\ rl.res # "hang"
           /\ call' =
                IF rl.res # "ok" THEN Returned(call.pos, NotParsed(rl.res))
                ELSE IF Len(rl.line) = 0
                THEN [call EXCEPT !.stage = StageAfterHeaders]
                ELSE IF TooLong(header_line)
                THEN Returned(rl.next, NotParsed("HeaderTooLong"))
                ELSE IF EndOfHeaders(header_line, kv)
                THEN [call EXCEPT !.stage = StageAfterHeaders, !.pos = rl.next]
                ELSE [call EXCEPT
                        !.pos = rl.next,
                        !.request = HttpRequest_add_header(call.request, kv.title,
                                                           trim(kv.value))]
    /\ UNCHANGED <<poolVars, mainPc, fs, routes, backlog, connReq, connState,
                   response, nfs, respObj, ncalls>>

\* "Validate Host header for HTTP/1.1".
ValidateHost ==
    /\ call.made
    /\ call.stage = "host"
    /\ call' = IF HostMissing(call.request)
               THEN Returned(call.pos, NotParsed("MissingHostHeader"))
               ELSE [call EXCEPT !.stage = "body"]
    /\ UNCHANGED <<poolVars, mainPc, fs, routes, backlog, connReq, connState,
                   response, nfs, respObj, ncalls>>

\* "Parse body if Content-Length is present", and Ok(request).
ParseBody ==
    /\ call.made
    /\ call.stage = "body"
    /\ LET got == read_body(StreamBytes(call.req), call.req.end, call.pos,
                            call.request)
       IN  /\ got.kind # "hang"
           /\ call' = Returned(IF got.kind = "Ok" /\ got.request.body # None
                               THEN call.pos + Len(got.request.body.bytes)
                               ELSE call.pos,
                               got)
    /\ UNCHANGED <<poolVars, mainPc, fs, routes, backlog, connReq, connState,
                   response, nfs, respObj, ncalls>>

NextStages ==
    \/ \E d \in Streams : StagedCall(d)
    \/ ParseRequestLine
    \/ ParseHeaderLine
    \/ ValidateHost
    \/ ParseBody

SpecStages == InitParse /\ [][NextStages]_vars

\* ------------------------------------------------------------ pool claims

\* C1: when drop has returned, every job submitted with execute before the
\* pool was dropped has run to completion; no submitted job is left in the
\* channel or unfinished in a worker.
C1_AllJobsRunBeforeDropReturns ==
    poolPc = "dropped" =>
        /\ \A j \in 1..nsub : j \in completed
        /\ queue = <<>>

\* C1 witness: drop has returned for a pool that was given more jobs than it
\* has workers.
C1_Witness ==
    /\ poolPc = "dropped"
    /\ nsub > size
    /\ nsub >= 2

\* C9: ThreadPool::new(size) with size > 0 yields a pool of exactly size
\* distinct workers, all of them waiting on the one channel until a job is
\* sent; ThreadPool::new(0) panics and yields no pool and no worker.
C9_NewCreatesSizeWorkers ==
    /\ (size = 0 => poolPc \in {"init", "newPanicked"})
    /\ (poolPc = "newPanicked" =>
            size = 0 /\ workers = <<>> /\ DOMAIN wpc = {} /\ ~senderOpen)
    /\ (poolPc = "live" =>
            /\ size > 0
            /\ Len(workers) = size
            /\ Cardinality(Range(workers)) = size
            /\ DOMAIN wpc = Range(workers)
            /\ (nsub = 0 => \A w \in DOMAIN wpc : wpc[w] \in {"lock", "recv"}))

\* C9 witness: a pool of two workers, one blocked in recv and one blocked on
\* the lock, before any job was sent.
C9_Witness ==
    /\ poolPc = "live"
    /\ size = 2
    /\ nsub = 0
    /\ \E w \in DOMAIN wpc : wpc[w] = "recv"

\* C9 witness of the failing case: new(0) has panicked.
C9_WitnessZero == poolPc = "newPanicked"

\* One call of execute by the pool's owner.
ExecuteStep == \E k \in JobKinds : PoolExecute(k)

\* C11: execute enqueues the job and returns without waiting for a worker to
\* become idle or for a job to finish: while the pool is live a call of
\* execute can always complete, also when every worker is running a job and
\* when an idle worker is blocked in recv holding the lock of the Receiver.
C11_ExecuteNeverBlocks ==
    (poolPc = "live" /\ nsub < MaxJobs) =>
        /\ ENABLED ExecuteStep
        /\ ReceiverAlive =>
              ENABLED (ExecuteStep /\ poolPc' = "live" /\ Len(queue') = Len(queue) + 1)

\* C11 witness: execute has returned twice while the single worker of the
\* pool was running the first job, a job that never returns: two jobs wait
\* in the channel.
C11_Witness ==
    /\ poolPc = "live"
    /\ size = 1
    /\ \A w \in DOMAIN wpc : wpc[w] = "run" /\ wjob[w].id = 1 /\ wjob[w].kind = "hang"
    /\ Len(queue) = 2

\* C11 witness of the other case: execute has returned while an idle worker
\* was blocked in recv holding the lock: the job is in the channel, not yet
\* taken, and the worker still holds the lock.
C11_WitnessIdle ==
    /\ poolPc = "live"
    /\ nsub = 1
    /\ queue # <<>>
    /\ \E w \in DOMAIN wpc : wpc[w] = "recv" /\ lockHolder = w

\* C10: jobs leave the channel in the order execute sent them: the ids recv
\* has handed out are 1, 2, 3, ... with no gap and no inversion, whichever
\* workers took them.
C10_DequeuedInSubmissionOrder ==
    \A i \in DOMAIN dequeued : dequeued[i] = i

\* C10 witness: two workers took jobs 1 and 2 in that order, and job 2 has
\* completed while job 1 is still running (completion order is free).
C10_Witness ==
    /\ Len(dequeued) >= 2
    /\ 2 \in completed
    /\ 1 \notin completed
    /\ \E w \in DOMAIN wpc : wpc[w] = "run" /\ wjob[w].id = 1

\* ---------------------------------------------------------- server claims

Live == {"lock", "recv", "run"}

\* C2: handling a connection whose request cannot be parsed, or whose file
\* cannot be read, never ends the worker thread that runs it: every one of
\* the pool's threads stays alive, whatever the clients send.
C2_WorkersSurviveBadConnections ==
    poolPc = "live" =>
        /\ \A w \in DOMAIN wpc : wpc[w] \in Live
        /\ Cardinality({w \in DOMAIN wpc : wpc[w] \in Live}) = size

\* C3: when the request on a connection cannot be parsed, handle_connection
\* still writes a response to the connection, with a status from 400 to 499.
C3_UnparseableGets400 ==
    (call.made /\ call.req \in Unparseable) =>
        /\ call.out.written
        /\ call.out.resp.status_code \in 400..499

\* C4: for a GET request whose cleaned target is a key of the route table
\* (the mapped file being readable when the handler reads it), the handler
\* returns having written a response of status 200 whose body is the
\* contents of the mapped file and whose content-length header is the
\* decimal length of that body.
C4_RegisteredGetIs200 ==
    \A t \in Targets :
        (/\ call.made
         /\ call.req = GoodRequest(S_GET, t)
         /\ clean_route(t) \in DOMAIN routes
         /\ call.fsAt[routes[clean_route(t)]].readable)
        => /\ call.outcome = "ok"
           /\ call.out.written
           /\ call.out.resp.status_code = 200
           /\ call.out.resp.body = Some(call.fsAt[routes[clean_route(t)]].contents)
           /\ try_get_header(call.out.resp, S_content_length).some
           /\ DecimalValue(try_get_header(call.out.resp, S_content_length).bytes)
                = Len(call.out.resp.body.bytes)

\* C4 witness: GET /../hi/. was answered with 200 and the contents page.html
\* had at that moment, after an edit made since startup.
C4_Witness ==
    /\ call.made
    /\ call.req = GoodRequest(S_GET, T_dots)
    /\ call.out.written
    /\ call.out.resp.status_code = 200
    /\ call.out.resp.body = Some(<<"H", "o", "w", "d", "y", "!">>)

\* C5: for a request whose cleaned target is not a key of the route table
\* (not_found.html being readable when the handler reads it), the handler
\* returns having written a response of status 404 whose body is the
\* contents not_found.html has at the time of the request.
C5_UnregisteredIs404 ==
    \A m \in Methods, t \in Targets :
        (/\ call.made
         /\ call.req = GoodRequest(m, t)
         /\ clean_route(t) \notin DOMAIN routes
         /\ call.fsAt[<<S_not_found_html>>].readable)
        => /\ call.outcome = "ok"
           /\ call.out.written
           /\ call.out.resp.status_code = 404
           /\ call.out.resp.body = Some(call.fsAt[<<S_not_found_html>>].contents)

\* C5 witness: GET /not_found.html, which is no route, was answered with 404
\* and the contents not_found.html had after an edit made since startup.
C5_Witness ==
    /\ call.made
    /\ call.req = GoodRequest(S_GET, T_not_found)
    /\ call.out.written
    /\ call.out.resp.status_code = 404
    /\ call.out.resp.body = Some(<<"U", "h", " ", "o", "h", "!", "!">>)

\* C6: after any sequence of add_header and add_body calls, a response that
\* has a body has a content-length header holding the decimal length of
\* that body.
C6_ContentLengthMatchesBody ==
    respObj.body.some =>
        /\ try_get_header(respObj, S_content_length).some
        /\ try_get_header(respObj, S_content_length).bytes = to_string(Len(respObj.body.bytes))

\* A connection has received a complete response of status 200 to GET /:
\* the body is index.html and content-length is its length.
Complete200(c) ==
    /\ response[c].written
    /\ response[c].resp.status_code = 200
    /\ response[c].resp.body = Some(InitialFs[<<S_index_html>>].contents)
    /\ try_get_header(response[c].resp, S_content_length).some
    /\ DecimalValue(try_get_header(response[c].resp, S_content_length).bytes)
         = Len(response[c].resp.body.bytes)

\* C7: when MaxGetConns clients, more than there are workers, each send
\* GET /, every connection that was made receives its own complete response
\* of status 200, under every interleaving of main and the workers: from
\* some moment on, every connection made has its complete 200 response.
C7_EveryGetAnswered200 ==
    <>[](\A c \in 1..MaxGetConns : connState[c] # "none" => Complete200(c))

\* C7 witness: every one of the MaxGetConns connections has its 200.
C7_Witness ==
    /\ MaxGetConns > POOL_SIZE
    /\ \A c \in 1..MaxGetConns : Complete200(c)

\* The jobs that exist: buffered in the channel or held by a worker.
JobsAlive == Range(queue) \cup {wjob[w] : w \in DOMAIN wpc}

\* C8: once build_routes has returned, no step changes main's route table,
\* whatever connections are handled and whatever happens to the files, and
\* every handler submitted holds that same mapping.
C8_RouteTableFrozen ==
    [][mainPc = "accept" =>
        /\ routes' = routes
        /\ \A j \in JobsAlive' : j.kind = "conn" => j.routes = routes']_vars

\* C8 witness: one connection has been handled and closed, a file has been
\* removed since the table was built, and another handler is still queued.
C8_Witness ==
    /\ mainPc = "accept"
    /\ nfs >= 1
    /\ \E c \in DOMAIN connState : connState[c] = "closed"
    /\ \E j \in Range(queue) : j.kind = "conn"

\* -------------------------------------------------------- clean_route alone

MaxTargetLen == 5

\* The bytes the targets are made of: the separator, the dot of "." and
\* "..", and the letters of the directory hi.
TargetChars == {"/", ".", "h", "i"}

T_hi == <<"/", "h", "i">>
T_up == <<"/", "a", "/", "b", "/", ".", ".", "/", "b">>
T_up_clean == <<"/", "a", "/", "b">>
T_howdy == <<"/", "h", "o", "w", "d", "y">>
T_howdy_slash == <<"/", "h", "o", "w", "d", "y", "/">>

\* Every target of up to MaxTargetLen bytes, and the targets of the tests.
RouteTargets ==
    UNION {[1..n -> TargetChars] : n \in 0..MaxTargetLen}
    \cup Targets
    \cup {T_hi, T_up, T_up_clean, T_howdy, T_howdy_slash}

\* The targets that differ from t only by a redundant separator: one slash
\* written twice, one of two adjacent slashes left out, a trailing slash
\* added, or the trailing slash left out.
Alike(t) ==
    {SubSeq(t, 1, i) \o SubSeq(t, i, Len(t)) : i \in {j \in DOMAIN t : t[j] = "/"}}
    \cup {SubSeq(t, 1, i) \o SubSeq(t, i + 2, Len(t)) :
            i \in {j \in 1..(Len(t) - 1) : t[j] = "/" /\ t[j + 1] = "/"}}
    \cup {t \o SLASH}
    \cup (IF t # <<>> /\ t[Len(t)] = "/" THEN {SubSeq(t, 1, Len(t) - 1)} ELSE {})

\* routes.get(key): the file the table maps the key to.
routes_get(rts, key) == IF key \in DOMAIN rts THEN Some(rts[key]) ELSE None

InitRoute ==
    /\ size = POOL_SIZE
    /\ PoolInit
    /\ mainPc = "accept"
    /\ fs = InitialFs
    /\ routes \in BuiltTables(InitialFs)
    /\ backlog = <<>>
    /\ connReq = <<>>
    /\ connState = <<>>
    /\ response = <<>>
    /\ nfs = 0
    /\ call = NoCall
    /\ respObj = <<>>
    /\ ncalls = 0

\* clean_route is called, once, on the target t, then on its own result,
\* and on every target that differs from t by a redundant separator.
RouteCall(t) ==
    /\ ~call.made
    /\ call' = [made |-> TRUE,
                target |-> t,
                key |-> clean_route(t),
                again |-> clean_route(clean_route(t)),
                alike |-> {[target |-> u, key |-> clean_route(u)] : u \in Alike(t)}]
    /\ UNCHANGED <<poolVars, mainPc, fs, routes, backlog, connReq, connState,
                   response, nfs, respObj, ncalls>>

NextRoute == \E t \in RouteTargets : RouteCall(t)

SpecRoute == InitRoute /\ [][NextRoute]_vars

\* ------------------------------------------------------- build_routes alone

\* Number of entries below ./pages in the trees that are walked.
MaxEntries == 3

S_a_css == <<"a", ".", "c", "s", "s">>
S_notes_txt == <<"n", "o", "t", "e", "s", ".", "t", "x", "t">>
S_README == <<"R", "E", "A", "D", "M", "E">>
S_x == <<"x">>

\* An entry whose metadata cannot be read (a dangling symbolic link, an
\* entry of a directory that may be listed but not searched): is_dir() and
\* is_file() are both false for it.
NoStat == [kind |-> "nostat", contents |-> <<>>, readable |-> FALSE]

\* A directory that cannot be listed: read_dir returns Err.
DirUnreadable == [kind |-> "dir", contents |-> <<>>, readable |-> FALSE]

\* The entries the walked trees are made of: files of every kind of name in
\* the root, in the directory hi and in its subdirectory x.
WalkFiles ==
    {<<S_index_html>>, <<S_page_html>>, <<S_not_found_html>>, <<S_a_css>>,
     <<S_notes_txt>>, <<S_README>>,
     <<S_hi, S_page_html>>, <<S_hi, S_index_html>>, <<S_hi, S_a_css>>,
     <<S_hi, S_not_found_html>>,
     <<S_hi, S_x, S_index_html>>, <<S_hi, S_x, S_a_css>>}
WalkDirs == {<<S_hi>>, <<S_hi, S_x>>}

\* The tree holding the entries of S, each file with its path as contents.
TreeOf(S) ==
    [p \in S \cup {<<>>} |-> IF p \in WalkFiles THEN File(p[Len(p)]) ELSE Dir]

\* Every tree of up to MaxEntries entries; an entry has its directory.
Trees ==
    {TreeOf(S) : S \in {X \in SUBSET (WalkFiles \cup WalkDirs) :
        /\ Cardinality(X) <= MaxEntries
        /\ \A p \in X : Len(p) > 1 => SubSeq(p, 1, Len(p) - 1) \in X}}

InitWalk ==
    /\ size = POOL_SIZE
    /\ PoolInit
    /\ mainPc = "pooled"
    /\ fs \in Trees
    /\ routes = <<>>
    /\ backlog = <<>>
    /\ connReq = <<>>
    /\ connState = <<>>
    /\ response = <<>>
    /\ nfs = 0
    /\ call = NoCall
    /\ respObj = <<>>
    /\ ncalls = 0

\* build_routes(String::from(""), path) is called, once, on the tree, and
\* read_dir lists the names in the order ord.
WalkCall(ord) ==
    /\ ~call.made
    /\ call' = [made |-> TRUE,
                ord |-> ord,
                out |-> build_routes(fs, <<>>, <<>>, ord)]
    /\ UNCHANGED <<poolVars, mainPc, fs, routes, backlog, connReq, connState,
                   response, nfs, respObj, ncalls>>

NextWalk == \E ord \in Orders(fs) : WalkCall(ord)

SpecWalk == InitWalk /\ [][NextWalk]_vars

\* ------------------------------------------------- serving a request target

T_notes == <<"/", "n", "o", "t", "e", "s", ".", "t", "x", "t">>
T_notes_up == <<"/", "h", "i", "/", ".", ".", "/", "n", "o", "t", "e", "s", ".", "t", "x", "t">>
T_outside == <<"/", ".", ".", "/", "h", "i">>

\* The served tree with two files that are in no table: notes.txt in
\* ./pages, and a file hi beside ./pages (its path begins with "..").
ServedFs ==
    InitialFs
    @@ (<<S_notes_txt>> :> File(<<"n", "o", "t", "e", "s">>))
    @@ (<<DOTDOT, S_hi>> :> File(<<"o", "u", "t", "s", "i", "d", "e">>))

\* Every target of up to MaxTargetLen bytes, and targets that name the two
\* files directly and by way of "..".
ServeTargets == RouteTargets \cup {T_notes, T_notes_up, T_outside}

InitServe ==
    /\ size = POOL_SIZE
    /\ PoolInit
    /\ mainPc = "accept"
    /\ fs = ServedFs
    /\ routes \in BuiltTables(ServedFs)
    /\ backlog = <<>>
    /\ connReq = <<>>
    /\ connState = <<>>
    /\ response = <<>>
    /\ nfs = 0
    /\ call = NoCall
    /\ respObj = <<>>
    /\ ncalls = 0

\* handle_connection is called, once, on a GET of the target t; the call
\* records the file name it passes to read_to_string.
ServeCall(t) ==
    /\ ~call.made
    /\ call' =
         [made |-> TRUE,
          target |-> t,
          read |-> filename_for(clone(routes),
                     lookup_key(split_whitespace(RequestLine(S_GET, t))[2])),
          outcome |-> handle_connection(GoodRequest(S_GET, t), clone(routes), fs).outcome,
          out |-> handle_connection(GoodRequest(S_GET, t), clone(routes), fs).out]
    /\ UNCHANGED <<poolVars, mainPc, fs, routes, backlog, connReq, connState,
                   response, nfs, respObj, ncalls>>

NextServe == \E t \in ServeTargets : ServeCall(t)

SpecServe == InitServe /\ [][NextServe]_vars

\* ------------------------------------------------------ the server's startup

\* The trees main may find below ./pages when it starts: the served tree;
\* the same with the directory hi unreadable; with a file README beside
\* index.html; a ./pages that cannot be listed; and a ./pages that can be
\* listed but not searched, so that the metadata of no entry can be read.
StartTrees ==
    {InitialFs,
     [InitialFs EXCEPT ![<<S_hi>>] = DirUnreadable],
     InitialFs @@ (<<S_README>> :> File(S_README)),
     (<<>> :> DirUnreadable),
     [p \in {<<>>, <<S_index_html>>, <<S_not_found_html>>} |->
         IF p = <<>> THEN Dir ELSE NoStat]}

InitStartup ==
    /\ size = POOL_SIZE
    /\ PoolInit
    /\ mainPc = "start"
    /\ fs \in StartTrees
    /\ routes = <<>>
    /\ backlog = <<>>
    /\ connReq = [c \in 1..MaxConns |-> NoRequest]
    /\ connState = [c \in 1..MaxConns |-> "none"]
    /\ response = [c \in 1..MaxConns |-> NoResponse]
    /\ nfs = 0
    /\ call = NoCall
    /\ respObj = <<>>
    /\ ncalls = 0

SpecStartup == InitStartup /\ [][Next]_vars

\* ---------------------------------------------------------- parser claims

\* The positions at which the whitespace-separated tokens of s start.
TokenStarts(s) ==
    {i \in DOMAIN s : s[i] \notin Whitespace /\ (i = 1 \/ s[i - 1] \in Whitespace)}

NumTokens(s) == Cardinality(TokenStarts(s))

\* The k-th token of s, for k up to NumTokens(s).
NthToken(s, k) ==
    LET a == CHOOSE i \in TokenStarts(s) :
                Cardinality({j \in TokenStarts(s) : j <= i}) = k
        ws == {j \in a..Len(s) : s[j] \in Whitespace}
    IN  SubSeq(s, a, IF ws = {} THEN Len(s) ELSE Min(ws) - 1)

\* The request line and the header lines the client of the call sent.
SentLine == LineBytes(call.req.line)
SentHeader(i) == LineBytes(call.req.headers[i])

\* The request line is one the parser builds a request from.
LineAccepted ==
    /\ Len(SentLine) <= MAX_HEADER_LINE_LEN
    /\ NumTokens(SentLine) >= 3
    /\ NthToken(SentLine, 1) \in HttpMethods

HasColon(l) == \E i \in DOMAIN l : l[i] = COLON
TitleOf(l) == SubSeq(l, 1, Min({i \in DOMAIN l : l[i] = COLON}) - 1)
ValueOf(l) == SubSeq(l, Min({i \in DOMAIN l : l[i] = COLON}) + 1, Len(l))

\* The number of header lines sent before the first one without a colon:
\* the lines the header loop stores.
NumStored ==
    IF \E i \in DOMAIN call.req.headers : ~HasColon(SentHeader(i))
    THEN Min({i \in DOMAIN call.req.headers : ~HasColon(SentHeader(i))}) - 1
    ELSE Len(call.req.headers)

\* The header loop is left without an error: the stored lines are within
\* the cap and a line without a colon, an empty line or the end of the
\* stream follows them.
SectionEnded ==
    /\ LineAccepted
    /\ \A i \in 1..NumStored : Len(SentHeader(i)) <= MAX_HEADER_LINE_LEN
    /\ \/ NumStored < Len(call.req.headers)
       \/ call.req.blank
       \/ \E i \in DOMAIN call.req.body : call.req.body[i] = LF
       \/ call.req.end = "eof"

\* A header line whose title is host, in any letter case, was stored.
HostSent ==
    \E i \in 1..NumStored : to_lowercase(TitleOf(SentHeader(i))) = S_host

\* C12: build_from_stream returns MalformedRequestLine when the request line
\* (one within the length cap) has fewer than three whitespace-separated
\* tokens, and when its first token is not exactly one of the nine
\* upper-case method names.
C12_BadRequestLineIsMalformed ==
    (/\ call.made
     /\ Len(SentLine) <= MAX_HEADER_LINE_LEN
     /\ \/ NumTokens(SentLine) < 3
        \/ NthToken(SentLine, 1) \notin HttpMethods)
    => call.out.kind = "MalformedRequestLine"

\* C12 witness: the request line "Get / HTTP/1.1", sent with a Host header,
\* was refused as malformed.
C12_Witness ==
    /\ call.made
    /\ call.req.line = Line(RequestLine(S_Get, T_root), 0)
    /\ Len(call.req.headers) = 1
    /\ call.out.kind = "MalformedRequestLine"

\* C12 witness of the other case: the request line "GET /", of two tokens.
C12_WitnessTwoTokens ==
    /\ call.made
    /\ call.req.line = Line(S_GET \o SP \o T_root, 0)
    /\ call.out.kind = "MalformedRequestLine"

\* C13: build_from_stream produces a request only from a request line of
\* exactly three whitespace-separated tokens.
C13_OnlyThreeTokensAccepted ==
    (call.made /\ call.out.kind = "Ok") => NumTokens(SentLine) = 3

\* The first line, request line or stored header line, that is over the cap
\* is reached by the parser: the request line if it is that one, else a
\* header line after an accepted request line.
OverCapReached ==
    \/ Len(SentLine) > MAX_HEADER_LINE_LEN
    \/ /\ LineAccepted
       /\ \E i \in 1..NumStored : Len(SentHeader(i)) > MAX_HEADER_LINE_LEN

\* C14: a request line or header line of more than MAX_HEADER_LINE_LEN
\* bytes, terminator not counted, makes build_from_stream return
\* HeaderTooLong, also when the tokens of the request line are malformed; a
\* line of exactly MAX_HEADER_LINE_LEN bytes does not.
C14_OverCapIsHeaderTooLong ==
    call.made => (call.out.kind = "HeaderTooLong" <=> OverCapReached)

\* C14 witness: a request line of MAX_HEADER_LINE_LEN + 1 bytes and only two
\* tokens, ended by CR LF, was refused with HeaderTooLong.
C14_Witness ==
    /\ call.made
    /\ Len(SentLine) = MAX_HEADER_LINE_LEN + 1
    /\ NumTokens(SentLine) = 2
    /\ call.req.eol = "crlf"
    /\ call.out.kind = "HeaderTooLong"

\* C14 witnesses at the cap: a request line, and a header line, of exactly
\* MAX_HEADER_LINE_LEN bytes ended by CR LF were accepted.
C14_WitnessAtCap ==
    /\ call.made
    /\ Len(SentLine) = MAX_HEADER_LINE_LEN
    /\ call.req.eol = "crlf"
    /\ call.out.kind = "Ok"

C14_WitnessHeaderAtCap ==
    /\ call.made
    /\ \E i \in DOMAIN call.req.headers : Len(SentHeader(i)) = MAX_HEADER_LINE_LEN
    /\ call.req.eol = "crlf"
    /\ call.out.kind = "Ok"

\* C15: once the header section has ended, build_from_stream returns
\* MissingHostHeader exactly when the version token is HTTP/1.1 and no host
\* header, in any letter case, was stored.
C15_MissingHostOnlyFor11 ==
    (call.made /\ SectionEnded) =>
        (call.out.kind = "MissingHostHeader"
            <=> (NthToken(SentLine, 3) = HTTP11 /\ ~HostSent))

\* C15 witness: an HTTP/1.1 request whose only header lines are X-A was
\* refused with MissingHostHeader.
C15_Witness ==
    /\ call.made
    /\ call.req.line = Line(RequestLine(S_GET, T_root), 0)
    /\ Len(call.req.headers) = 2
    /\ ~HostSent
    /\ call.out.kind = "MissingHostHeader"

\* C15 witness of the other case: an HTTP/1.0 request without any header
\* was accepted.
C15_WitnessOtherVersion ==
    /\ call.made
    /\ call.out.kind = "Ok"
    /\ call.req.headers = <<>>
    /\ NthToken(SentLine, 3) = HTTP10

\* The header section has ended and the Host check is passed: the parser
\* is at the body.
AtBody ==
    /\ SectionEnded
    /\ ~(NthToken(SentLine, 3) = HTTP11 /\ ~HostSent)

\* The value of the content-length header the parser has stored.
LengthStored == \E i \in 1..NumStored :
    to_lowercase(TitleOf(SentHeader(i))) = S_content_length
LengthValue ==
    trim(ValueOf(SentHeader(
        Max({i \in 1..NumStored :
                to_lowercase(TitleOf(SentHeader(i))) = S_content_length}))))

\* The content-length header parses as a positive integer.
LengthPositive ==
    /\ LengthStored
    /\ parse_usize(LengthValue).ok
    /\ parse_usize(LengthValue).val # <<"0">>

\* The bytes of the stream after the header section. In the streams sent
\* that carry a content-length the section ends at the empty line, if sent,
\* and at the first line of the body otherwise.
AfterSection ==
    IF call.req.blank THEN call.req.body
    ELSE IF \E i \in DOMAIN call.req.body : call.req.body[i] = LF
    THEN SubSeq(call.req.body,
                Min({i \in DOMAIN call.req.body : call.req.body[i] = LF}) + 1,
                Len(call.req.body))
    ELSE <<>>

\* The stream holds the n bytes the content-length announces.
BodyAvailable ==
    /\ Len(parse_usize(LengthValue).val) <= 9
    /\ DecimalValue(parse_usize(LengthValue).val) <= Len(AfterSection)

\* C16: if content-length parses as a positive integer n, build_from_stream
\* reads exactly the next n bytes after the header section as the body, and
\* returns IoError when the stream ends before n bytes are available; when
\* content-length is absent, zero or no valid integer, no body is read and
\* the request has no body.
C16_BodyOfContentLength ==
    (call.made /\ AtBody) =>
        IF LengthPositive
        THEN /\ BodyAvailable =>
                /\ call.out.kind = "Ok"
                /\ call.out.request.body =
                     Some(SubSeq(AfterSection, 1,
                                 DecimalValue(parse_usize(LengthValue).val)))
             /\ (~BodyAvailable /\ call.req.end = "eof") =>
                call.out.kind = "IoError"
        ELSE /\ call.out.kind = "Ok"
             /\ call.out.request.body = None

\* C17: each stored header line is split at its first colon into title and
\* value; the value, trimmed, is stored under the lower-cased title, and of
\* several lines with the same title, ignoring case, the last one is kept.
C17_HeadersSplitTrimmedLastWins ==
    (call.made /\ call.out.kind = "Ok") =>
        /\ DOMAIN call.out.request.headers =
             {to_lowercase(TitleOf(SentHeader(i))) : i \in 1..NumStored}
        /\ \A i \in 1..NumStored :
             (\A j \in (i + 1)..NumStored :
                 to_lowercase(TitleOf(SentHeader(j)))
                     # to_lowercase(TitleOf(SentHeader(i))))
             => call.out.request.headers[to_lowercase(TitleOf(SentHeader(i)))]
                  = trim(ValueOf(SentHeader(i)))

S_x_a == <<"x", "-", "a">>

\* C17 witness: "Host: a", "X-A: 1", "x-a:2 " were sent in that order and
\* the request holds "2" under x-a.
C17_Witness ==
    /\ call.made
    /\ call.out.kind = "Ok"
    /\ NumStored = 3
    /\ SentHeader(2) = S_X1
    /\ SentHeader(3) = S_x2
    /\ call.out.request.headers[S_x_a] = <<"2">>

\* C17 witness of the first colon: "Host: a:b" was stored as host = "a:b".
C17_WitnessColon ==
    /\ call.made
    /\ call.out.kind = "Ok"
    /\ NumStored = 1
    /\ SentHeader(1) = S_HostColonLine
    /\ call.out.request.headers[S_host] = <<"a", ":", "b">>

\* C18: a request whose lines end in bare LF parses to the same result, the
\* same method, target, version, headers and body, as the same request
\* written with CR LF.
C18_LfAndCrLfAlike ==
    call.made => call.out = call.twin

\* C18 witness: a request sent with bare LF, with a Host and a
\* Content-Length header and a body, was parsed and has its body.
C18_Witness ==
    /\ call.made
    /\ call.req.eol = "lf"
    /\ call.out.kind = "Ok"
    /\ call.out.request.body = Some(<<"h", "i">>)
    /\ S_host \in DOMAIN call.out.request.headers
    /\ call.twin.kind = "Ok"

\* ----------------------------------------------------- clean_route claims

\* C19: clean_route maps the target /a/b/../b to /a/b.
C19_DotDotResolved ==
    (call.made /\ call.target = T_up) => call.key = T_up_clean

\* C20: clean_route is idempotent, and targets that differ only by a
\* repeated slash or a trailing slash are cleaned to the same key and so
\* are mapped to the same file by the route table.
C20_IdempotentAndSlashBlind ==
    call.made =>
        /\ call.again = call.key
        /\ \A u \in call.alike :
             /\ u.key = call.key
             /\ routes_get(routes, u.key) = routes_get(routes, call.key)

\* C20 witness: /hi was cleaned, with /hi/ and //hi beside it, and the
\* table maps its key to hi/page.html.
C20_Witness ==
    /\ call.made
    /\ call.target = T_hi
    /\ \E u \in call.alike : u.target = T_hi_slash
    /\ \E u \in call.alike : u.target = SLASH \o T_hi
    /\ routes_get(routes, call.key) = Some(<<S_hi, S_page_html>>)

\* C20 witness of the root: // was cleaned, with / beside it, to the key /.
C20_WitnessRoot ==
    /\ call.made
    /\ call.target = T_double
    /\ \E u \in call.alike : u.target = T_root
    /\ call.key = T_root

\* ---------------------------------------------------- build_routes claims

EndsWith(name, suffix) ==
    /\ Len(name) > Len(suffix)
    /\ SubSeq(name, Len(name) - Len(suffix) + 1, Len(name)) = suffix

NameOf(p) == p[Len(p)]
DirOf(p) == SubSeq(p, 1, Len(p) - 1)

\* The files of the tree build_routes is to register: extension html, css
\* or js, and not named not_found.html.
Eligible(f) ==
    {p \in DOMAIN f :
        /\ f[p].kind = "file"
        /\ \E e \in {S_html, S_css, S_js} : EndsWith(NameOf(p), DOT \o e)
        /\ NameOf(p) # S_not_found_html}

\* The accumulated prefix of a directory: "" for the root, P/D for the
\* subdirectory D of the directory with prefix P.
RECURSIVE PrefixOf(_)
PrefixOf(dir) ==
    IF dir = <<>> THEN <<>>
    ELSE PrefixOf(DirOf(dir)) \o SLASH \o NameOf(dir)

\* The URL an eligible file is to be registered under.
UrlOf(p) ==
    IF NameOf(p) \in {S_index_html, S_page_html}
    THEN (IF DirOf(p) = <<>> THEN SLASH ELSE PrefixOf(DirOf(p)))
    ELSE PrefixOf(DirOf(p)) \o SLASH \o NameOf(p)

\* The place of a name in the order read_dir lists the names in.
ListedAt(ord, name) == CHOOSE i \in DOMAIN ord : ord[i] = name

C21_WitnessDeep ==
    /\ call.made
    /\ call.out.ok
    /\ call.out.routes = (SLASH \o S_hi \o SLASH \o S_x \o SLASH \o S_a_css
                            :> <<S_hi, S_x, S_a_css>>)

\* C21 witness of the two names in one directory: index.html was listed
\* before page.html and / is mapped to page.html.
C21_WitnessBoth ==
    /\ call.made
    /\ call.out.ok
    /\ {<<S_index_html>>, <<S_page_html>>} \subseteq DOMAIN fs
    /\ ListedAt(call.ord, S_index_html) < ListedAt(call.ord, S_page_html)
    /\ call.out.routes[SLASH] = <<S_page_html>>

\* C22: for every tree build_routes returns a table, and the table has no
\* entry for a file named not_found.html and none for a file whose
\* extension is not html, css or js, a file without extension included.
C22_IneligibleFilesSkipped ==
    call.made =>
        /\ call.out.ok
        /\ \A k \in DOMAIN call.out.routes :
             /\ NameOf(call.out.routes[k]) # S_not_found_html
             /\ \E e \in {S_html, S_css, S_js} :
                   EndsWith(NameOf(call.out.routes[k]), DOT \o e)

\* ------------------------------------------------------- as_bytes claims

\* The pieces of a sequence of byte strings written one after the other.
RECURSIVE Written_in_turn(_, _)
Written_in_turn(pieces, n) ==
    IF n = 0 THEN <<>> ELSE Written_in_turn(pieces, n - 1) \o pieces[n]

\* The phrase of the fixed table for a code, empty for a code it lacks.
PhraseOf(code) ==
    IF code = 200 THEN S_OK
    ELSE IF code = 404 THEN S_NotFound
    ELSE IF code = 500 THEN S_InternalServerError
    ELSE <<>>

\* C23: a response serializes as "{version} {code} {phrase}" CR LF, then
\* one "{key}: {value}" CR LF line per header, then an empty CR LF line,
\* then the body bytes if it has a body; the phrase is that of the table
\* for the code and empty for a code the table lacks.
C23_SerializedForm ==
    call.made =>
        LET r == call.resp
            n == Len(call.order)
            pieces ==
                [i \in 1..(n + 3) |->
                    IF i = 1
                    THEN r.version \o <<" ">> \o to_string(r.status_code) \o <<" ">>
                         \o PhraseOf(r.status_code) \o <<"\r", "\n">>
                    ELSE IF i <= n + 1
                    THEN call.order[i - 1] \o <<":", " ">> \o r.headers[call.order[i - 1]]
                         \o <<"\r", "\n">>
                    ELSE IF i = n + 2 THEN <<"\r", "\n">>
                    ELSE IF r.body.some THEN r.body.bytes ELSE <<>>]
        IN  /\ Range(call.order) = DOMAIN r.headers
            /\ n = Cardinality(DOMAIN r.headers)
            /\ call.out = Written_in_turn(pieces, n + 3)

\* C23 witness: a 404 response with the headers a and content-length and
\* the body "hi" was serialized, a first.
C23_Witness ==
    /\ call.made
    /\ call.resp.status_code = 404
    /\ call.order = <<<<"a">>, S_content_length>>
    /\ call.resp.body = Some(<<"h", "i">>)
    /\ call.out = HTTP11 \o <<" ", "4", "0", "4", " ">> \o S_NotFound \o <<"\r", "\n">>
                  \o <<"a", ":", " ">> \o call.resp.headers[<<"a">>] \o <<"\r", "\n">>
                  \o S_content_length \o <<":", " ", "2", "\r", "\n">>
                  \o <<"\r", "\n", "h", "i">>

\* C23 witness of a code the table lacks: a fresh response of code 999
\* serializes as "HTTP/1.1 999 " CR LF CR LF.
C23_WitnessUnknownCode ==
    /\ call.made
    /\ call.out = HTTP11 \o <<" ", "9", "9", "9", " ", "\r", "\n", "\r", "\n">>

\* ---------------------------------------------------------- startup claims

\* A connection has been accepted: its handler was submitted to the pool.
Accepted(c) == connState[c] \in {"queued", "closed"}

\* The walk of the tree meets a filesystem error: a directory that cannot
\* be listed, or an entry whose metadata cannot be read.
WalkMeetsError(f) == \E p \in DOMAIN f : f[p] \in {DirUnreadable, NoStat}

\* C24: the route table is built once, before the first connection is
\* accepted, and a filesystem error during the walk aborts startup: no
\* connection is accepted after a walk that met an error.
C24_BuiltOnceNoPartialTable ==
    /\ []((\E c \in DOMAIN connState : Accepted(c)) =>
            /\ mainPc \in {"accept", "panicked"}
            /\ ~WalkMeetsError(fs))
    /\ [][mainPc = "accept" => routes' = routes /\ mainPc' \in {"accept", "panicked"}]_vars
    /\ [][(\E c \in DOMAIN connState : ~Accepted(c) /\ Accepted(c)') => mainPc = "accept"]_vars

\* ---------------------------------------------------- serve-time file errors

\* The file handle_connection resolves for the target t: the mapped file,
\* or not_found.html for a target that is no route.
ResolvedFile(t) ==
    IF clean_route(t) \in DOMAIN routes THEN routes[clean_route(t)]
    ELSE <<S_not_found_html>>

\* C25: when the file resolved for a request cannot be read, the handler
\* returns without a panic and has answered the connection with a response
\* of status 500 to 599.
C25_UnreadableFileGets500 ==
    \A m \in Methods, t \in Targets :
        (/\ call.made
         /\ call.req = GoodRequest(m, t)
         /\ ~call.fsAt[ResolvedFile(t)].readable)
        => /\ call.outcome = "ok"
           /\ call.out.written
           /\ call.out.resp.status_code \in 500..599

\* ------------------------------------------------------------ shutdown claims

\* Drop has joined a worker: it has left the Vec the pool was built with.
SomeWorkerJoined == poolPc \notin {"init", "newPanicked"} /\ Len(workers) < size

\* C26: on drop the Sender is dropped before any worker is joined, and a
\* worker leaves its loop only from recv, with no job of its own running,
\* the Sender dropped and the channel empty; no job is queued while a
\* worker has left its loop.
C26_ExitOnlyOnClosedEmptyChannel ==
    /\ [](SomeWorkerJoined => ~senderOpen)
    /\ []((\E w \in DOMAIN wpc : wpc[w] = "exited") => queue = <<>> /\ ~senderOpen)
    /\ [][\A w \in DOMAIN wpc :
            (wpc[w] # "exited" /\ wpc'[w] = "exited")
            => /\ wpc[w] = "recv"
               /\ wjob[w] = NoJob
               /\ ~senderOpen
               /\ queue = <<>>]_vars

\* C26 witness: the pool of two workers was dropped with three jobs sent;
\* one worker has left its loop and been joined after all three jobs were
\* taken from the channel, the other is still running the last one.
C26_Witness ==
    /\ poolPc = "dropping"
    /\ size = 2
    /\ Len(workers) = 1
    /\ Len(dequeued) = 3
    /\ \E w \in DOMAIN wpc : wpc[w] = "exited"
    /\ \E w \in DOMAIN wpc : wpc[w] = "run" /\ wjob[w].id = 3

\* The jobs that never return, among those sent and not yet done.
HangingJobs ==
    {queue[i].id : i \in {k \in DOMAIN queue : queue[k].kind = "hang"}}
    \cup {wjob[w].id : w \in {v \in DOMAIN wpc : wpc[v] = "run" /\ wjob[v].kind = "hang"}}

\* C27: once drop has begun on a pool whose jobs all terminate, every
\* worker leaves its loop and drop returns, all workers joined.
C27_DropTerminates ==
    (poolPc = "dropping" /\ HangingJobs = {})
        ~> (/\ poolPc = "dropped"
            /\ workers = <<>>
            /\ \A w \in DOMAIN wpc : wpc[w] = "exited")

\* The jobs whose panic has ended the worker thread that ran them.
PanickedJobs == {wjob[w].id : w \in {v \in DOMAIN wpc : wpc[v] = "panicked"}}

\* C28: a job that never returns occupies one worker; in a pool of two or
\* more workers with one such job, every other job sent is eventually run
\* (to its return, or to its panic).
C28_HangingJobCostsOneWorker ==
    size >= 2 =>
        <>[](\/ Cardinality(HangingJobs) # 1
             \/ \A id \in 1..nsub :
                    id \in completed \cup HangingJobs \cup PanickedJobs)

\* --------------------------------------------------- header section claims

\* The header section of the call ends at a line without a colon, or at the
\* end of the stream: after lines that all hold a colon the peer closes,
\* with no empty line and nothing else sent.
EndedByColonless == NumStored < Len(call.req.headers)
EndedByEof ==
    /\ NumStored = Len(call.req.headers)
    /\ ~call.req.blank
    /\ call.req.body = <<>>
    /\ call.req.end = "eof"

\* C30: a header line without a colon ends header parsing without an error:
\* the headers before it are kept, no later line is parsed as a header, and
\* the host check follows; the end of the stream ends the section alike.
C30_ColonlessLineEndsHeaders ==
    (/\ call.made
     /\ LineAccepted
     /\ \A i \in 1..NumStored : Len(SentHeader(i)) <= MAX_HEADER_LINE_LEN
     /\ EndedByColonless \/ EndedByEof)
    => /\ call.out.kind \notin {"HeaderTooLong", "MalformedRequestLine"}
       /\ call.out.kind = "MissingHostHeader"
            <=> (NthToken(SentLine, 3) = HTTP11 /\ ~HostSent)
       /\ call.out.kind = "Ok" =>
            DOMAIN call.out.request.headers =
                {to_lowercase(TitleOf(SentHeader(i))) : i \in 1..NumStored}
       /\ (~LengthStored /\ ~(NthToken(SentLine, 3) = HTTP11 /\ ~HostSent))
            => call.out.kind = "Ok"

\* C30 witness: "garbage" was sent before "Host: a" in an HTTP/1.1 request;
\* the Host line was not parsed and the host check failed.
C30_Witness ==
    /\ call.made
    /\ Len(call.req.headers) = 2
    /\ SentHeader(1) = S_garbage
    /\ SentHeader(2) = S_HostLine
    /\ NthToken(SentLine, 3) = HTTP11
    /\ call.out.kind = "MissingHostHeader"

\* C30 witness of the kept headers: "Host: a" then "garbage"; the request
\* holds the host header and nothing else.
C30_WitnessKept ==
    /\ call.made
    /\ Len(call.req.headers) = 2
    /\ SentHeader(1) = S_HostLine
    /\ SentHeader(2) = S_garbage
    /\ call.out.kind = "Ok"
    /\ DOMAIN call.out.request.headers = {S_host}

\* C30 witness of the end of the stream: the peer closed after "Host: a".
C30_WitnessEof ==
    /\ call.made
    /\ EndedByEof
    /\ Len(call.req.headers) = 1
    /\ SentHeader(1) = S_HostLine
    /\ call.out.kind = "Ok"

\* ------------------------------------------------------------ stage claims

\* The bytes of the stream up to the end of its header section, when the
\* section ends at the empty line sent.
SectionBytes ==
    Len(Joined(<<call.req.line>> \o call.req.headers, call.req.eol))
    + Len(Eol(call.req.eol))

\* What each stage of the call in progress shows of the stream it reads.
StageFollowsStream ==
    call.made =>
        /\ call.stage = "headers" => LineAccepted
        /\ call.stage = "host" => SectionEnded
        /\ call.stage = "body" => AtBody
        /\ (/\ call.stage # "done" \/ call.out.kind = "MissingHostHeader"
            /\ NumStored = Len(call.req.headers)
            /\ call.req.blank)
           => call.pos <= SectionBytes + 1

\* The result is the error of the first stage that fails, and the result of
\* the code run in one piece.
FirstFailureReported ==
    (call.made /\ call.stage = "done") =>
        /\ call.out = build_from_stream(StreamBytes(call.req), call.req.end)
        /\ ~LineAccepted =>
              call.out.kind \in {"HeaderTooLong", "MalformedRequestLine"}
        /\ (LineAccepted /\ ~SectionEnded) =>
              call.out.kind \in {"HeaderTooLong", "IoError"}
        /\ (SectionEnded /\ ~AtBody) => call.out.kind = "MissingHostHeader"
        /\ AtBody => call.out.kind \in {"Ok", "IoError", "panic"}

\* A call that blocks in one piece does not return stage by stage.
BlockedStaysBlocked ==
    (call.made /\ call.stage = "done") =>
        build_from_stream(StreamBytes(call.req), call.req.end).kind # "hang"

\* C29: build_from_stream goes through request line, headers, host check
\* and body in that order and never back, and returns the error of the first
\* stage that fails; no byte after the header section is read before the
\* section has ended and the host check has passed.
C29_StagesInOrder ==
    /\ [](StageFollowsStream /\ FirstFailureReported /\ BlockedStaysBlocked)
    /\ [][(call.made /\ call'.made) =>
            /\ StageRank(call'.stage) >= StageRank(call.stage)
            /\ call'.pos >= call.pos
            /\ call'.req = call.req
            /\ call.stage # "done"
            /\ (call.stage \in {"host", "body"} /\ call'.pos > call.pos) =>
                  (call.stage = "body" /\ ~HostMissing(call.request))]_vars

\* C29 witness: a call went through all four stages and returned a request
\* with a body, every byte of the stream read.
C29_Witness ==
    /\ call.made
    /\ call.stage = "done"
    /\ call.out.kind = "Ok"
    /\ call.out.request.body # None
    /\ call.pos = Len(StreamBytes(call.req)) + 1
    /\ Len(call.req.headers) = 2

\* C29 witness of the host check before the body: an HTTP/1.1 request with
\* "Content-Length: 2", no Host and the body "hi" returned MissingHostHeader
\* with the two body bytes unread.
C29_WitnessHostFirst ==
    /\ call.made
    /\ call.stage = "done"
    /\ call.out.kind = "MissingHostHeader"
    /\ call.req.blank
    /\ call.req.body = <<"h", "i">>
    /\ LengthStored
    /\ LengthValue = <<"2">>
    /\ call.pos = SectionBytes + 1

\* ------------------------------------------------ normalized route claims

\* The segments of a string: the bytes between one slash (or the start) and
\* the next slash (or the end).
Cuts(s) == {0, Len(s) + 1} \cup {i \in DOMAIN s : s[i] = "/"}

\* The segments between two neighbouring cuts.
SegmentSet(s) ==
    {SubSeq(s, a + 1, b - 1) : <<a, b>> \in
        {c \in Cuts(s) \X Cuts(s) :
            c[1] < c[2] /\ \A m \in Cuts(s) : ~(c[1] < m /\ m < c[2])}}

\* The segments clean_route keeps.
KeptSegments(s) == SegmentSet(s) \ {<<>>, DOT, DOTDOT}

\* C31: for every request target, the normalized route starts with /, has
\* no empty, "." or ".." segment and no trailing slash unless it is exactly
\* "/", and is exactly "/" when no segment of the target remains.
C31_NormalizedRouteShape ==
    call.made =>
        /\ call.key # <<>>
        /\ call.key[1] = "/"
        /\ call.key # SLASH =>
              /\ call.key[Len(call.key)] # "/"
              /\ \A seg \in SegmentSet(Tail(call.key)) :
                    seg \notin {<<>>, DOT, DOTDOT}
        /\ (KeptSegments(call.target) = {}) <=> (call.key = SLASH)
        /\ KeptSegments(call.key) = KeptSegments(call.target)

\* C31 witness: the target /../h was cleaned to /h.
C31_Witness ==
    /\ call.made
    /\ call.target = <<"/", ".", ".", "/", "h">>
    /\ call.key = <<"/", "h">>

\* C31 witness of the root: nothing remains of the target /./.. and the key
\* is /.
C31_WitnessNothingLeft ==
    /\ call.made
    /\ call.target = <<"/", ".", "/", ".", ".">>
    /\ call.key = SLASH

\* ------------------------------------------------------ route table claims

Holders(id) == {w \in DOMAIN wjob : wjob[w] # NoJob /\ wjob[w].id = id}

\* C33: each submitted job is run at most once and by one worker: no two
\* workers ever receive the same job.
C33_EachJobRunOnce ==
    /\ [](/\ \A i, j \in DOMAIN dequeued : dequeued[i] = dequeued[j] => i = j
          /\ \A i, j \in DOMAIN queue : queue[i].id = queue[j].id => i = j
          /\ \A i \in DOMAIN queue : queue[i].id \notin Range(dequeued)
          /\ \A id \in 1..nsub : Cardinality(Holders(id)) <= 1
          /\ \A id \in Range(dequeued) :
                id \in completed <=> Holders(id) = {}
          /\ completed \subseteq Range(dequeued))
    /\ [][\A w \in DOMAIN wpc :
            (wpc[w] # "run" /\ wpc'[w] = "run") =>
                /\ wjob'[w].id \notin Range(dequeued)
                /\ \E i \in DOMAIN queue : queue[i].id = wjob'[w].id
                /\ \A v \in DOMAIN wpc \ {w} : wjob'[v] = wjob[v]]_vars

\* C33 witness: two workers run two different jobs at the same time, a
\* third job having been run before.
C33_Witness ==
    /\ size = 2
    /\ Len(dequeued) = 3
    /\ Cardinality(completed) = 1
    /\ \A w \in DOMAIN wpc : wpc[w] = "run"
    /\ \E w, v \in DOMAIN wpc : wjob[w].id # wjob[v].id

\* The jobs sent and not finished, and the workers running one.
Unfinished == Len(queue) + Cardinality({w \in DOMAIN wpc : wpc[w] = "run"})
Running == {w \in DOMAIN wpc : wpc[w] = "run"}

\* The pool has its N workers: it is built and no worker thread has ended.
AllWorkersLive ==
    /\ poolPc \in {"live", "dropping", "dropped", "dropPanicked"}
    /\ \A w \in DOMAIN wpc : wpc[w] \notin {"exited", "panicked"}

\* C34: a worker holds the receiver lock only while it waits for and takes
\* a job, not while it runs one; so with N workers and at least N jobs
\* sent and not finished, N jobs come to run at the same time, and never
\* more than N run.
C34_JobsRunInParallel ==
    /\ [](/\ lockHolder # NoWorker => wpc[lockHolder] = "recv"
          /\ \A w \in DOMAIN wpc : wpc[w] = "run" => lockHolder # w
          /\ Cardinality(Running) <= size)
    /\ (AllWorkersLive /\ Unfinished >= size)
         ~> (\/ Cardinality(Running) = size
             \/ Unfinished < size
             \/ ~AllWorkersLive)

\* C34 witness: both workers of a pool of two run a job at the same time,
\* a third job waits in the channel, and the lock is free.
C34_Witness ==
    /\ size = 2
    /\ Cardinality(Running) = 2
    /\ Len(queue) = 1
    /\ lockHolder = NoWorker

\* The workers that can still take a job: their thread has not ended and
\* is not held by a job that never returns.
Remaining ==
    {w \in DOMAIN wpc :
        /\ wpc[w] \notin {"panicked", "exited"}
        /\ ~(wpc[w] = "run" /\ wjob[w].kind = "hang")}

\* C35: if a job panics, only the worker running it stops; the receiver
\* lock, released before the job ran, is not poisoned, and the remaining
\* workers go on dequeuing and running the jobs sent afterwards.
C35_PanicStopsOneWorker ==
    /\ [](~poisoned)
    /\ [][\A w \in DOMAIN wpc :
            (wpc[w] # "panicked" /\ wpc'[w] = "panicked") =>
                /\ wpc[w] = "run"
                /\ wjob[w].kind = "panic"
                /\ lockHolder # w
                /\ lockHolder' = lockHolder
                /\ queue' = queue
                /\ \A v \in DOMAIN wpc \ {w} :
                      wpc'[v] = wpc[v] /\ wjob'[v] = wjob[v]]_vars
    /\ <>[](queue = <<>> \/ Remaining = {})

\* C35 witness: the first job panicked and ended its worker; the other
\* worker of the pool has since run the second and the third job.
C35_Witness ==
    /\ size = 2
    /\ ~poisoned
    /\ \E w \in DOMAIN wpc : wpc[w] = "panicked" /\ wjob[w].id = 1
    /\ completed = {2, 3}

\* ------------------------------------------------------------ served files

\* The files the handler may read: the values of the route table and the
\* not_found.html fallback.
Servable == Range(routes) \cup {NotFoundPath}

\* C36: whatever the request target, the file the handler reads for the
\* response body is a value of the route table or not_found.html: no
\* target, with ".." segments or without, makes it read another file.
C36_OnlyTableFilesRead ==
    call.made =>
        /\ call.read \in Servable
        /\ call.outcome = "ok"
        /\ call.out.resp.body = Some(fs[call.read].contents)
        /\ \A p \in DOMAIN fs \ Servable :
              fs[p].kind = "file" => call.out.resp.body # Some(fs[p].contents)

\* C36 witness: /hi/../notes.txt was requested, notes.txt is a file of the
\* tree, and not_found.html was read.
C36_Witness ==
    /\ call.made
    /\ call.target = T_notes_up
    /\ <<S_notes_txt>> \in DOMAIN fs
    /\ call.read = NotFoundPath
    /\ call.out.resp.status_code = 404

\* C36 witness of a target that points out of ./pages: /../hi was requested
\* and hi/page.html, the value of the key /hi, was read.
C36_WitnessOutside ==
    /\ call.made
    /\ call.target = T_outside
    /\ <<DOTDOT, S_hi>> \in DOMAIN fs
    /\ call.read = <<S_hi, S_page_html>>
    /\ call.out.resp.status_code = 200

\* ------------------------------------------------------ the order of a walk

\* C37: the built table depends on the tree alone: a walk that lists the
\* directory entries in any other order builds the same mapping, also when
\* a directory holds both index.html and page.html.
C37_TableIndependentOfOrder ==
    call.made =>
        \A other \in Orders(fs) :
            build_routes(fs, <<>>, <<>>, other) = call.out

====
